---- MODULE Spec2Model ----
(***************************************************************************)
(* Model of the NCBM_System core: the connection and execution core        *)
(* (src/device_manager.py), the diff engine (src/diff_engine.py), the      *)
(* backup store and orchestrator (src/backup_manager.py, src/scheduler.py, *)
(* the backup request of src/app.py) and the device registry               *)
(* (src/config.py, the device requests of src/app.py).                     *)
(*                                                                         *)
(* Where one caller runs one method at a time, a method is a chain of      *)
(* steps, one step per transport exchange (open, probe, send, close) or    *)
(* file operation; pc holds the position of the running DeviceManager      *)
(* method and frame its local variables, job the position and local        *)
(* variables of the running backup job.  The outcome of every transport    *)
(* exchange and file operation is chosen by the environment.  obs and olog *)
(* record what the running call did; they are written, never read, by the  *)
(* steps.  config is the section 'devices' of the configuration and reg    *)
(* the latest call of a registry method.  In SpecConc two threads run      *)
(* methods at the same time, as the scheduler thread and the request       *)
(* threads of the program do; threads holds the position and local         *)
(* variables of each.                                                      *)
(*                                                                         *)
(* The specifications share the variables: Spec (the DeviceManager         *)
(* methods), SpecDiff and SpecRelease (one call of compare_configs on two  *)
(* texts), SpecHist (one call of get_latest_backup on a directory),        *)
(* SpecOrch (backup jobs over the device manager and the backup store),    *)
(* SpecConc (a backup run and a request in two threads), SpecReg (the      *)
(* registry methods of Config), SpecApi (the device requests between       *)
(* DeviceManager calls) and SpecLive (backup runs whose thread keeps       *)
(* running, with a device deleted in between).                             *)
(***************************************************************************)
EXTENDS Integers, Sequences, FiniteSets, TLC

\* ---------------------------------------------------------------- bounds
\* Number of transport sessions the environment lets the program open in
\* one behaviour; once used up every further open fails.
MaxSessions == 2

\* ------------------------------------------------------ program constants
connection_retries == 3
retry_delay == 2

\* Device names, in the lower case that configparser gives option names: r1
\* and r2 are in the configuration file, r9 is not.
Names == {"r1", "r2", "r9"}
ConfiguredDevices == {"r1", "r2"}

Sids == 1..MaxSessions
NoConn == 0

\* ------------------------------------------------ exceptions of send_command
\* The exceptions the transport raises from send_command, each with the
\* text str(e) gives and the class of fault it stands for.
Exceptions == {"SocketClosed", "ReadTimeout", "ConnReset", "InvalidInput"}

Message(e) ==
    CASE e = "SocketClosed" ->
           <<"S","o","c","k","e","t"," ","i","s"," ","c","l","o","s","e","d">>
      [] e = "ReadTimeout" ->
           <<"T","i","m","e","d","-","o","u","t"," ","r","e","a","d","i","n",
             "g"," ","c","h","a","n","n","e","l",","," ","d","a","t","a"," ",
             "n","o","t"," ","a","v","a","i","l","a","b","l","e",".">>
      [] e = "ConnReset" ->
           <<"C","o","n","n","e","c","t","i","o","n"," ","r","e","s","e","t",
             " ","b","y"," ","p","e","e","r">>
      [] e = "InvalidInput" ->
           <<"I","n","v","a","l","i","d"," ","i","n","p","u","t"," ",
             "d","e","t","e","c","t","e","d">>

\* timeout / closed / reset are faults of the transport; anything else is not.
FaultClass(e) ==
    CASE e = "SocketClosed" -> "closed"
      [] e = "ReadTimeout" -> "timeout"
      [] e = "ConnReset" -> "reset"
      [] e = "InvalidInput" -> "other"

Transient(e) == FaultClass(e) \in {"timeout", "closed", "reset"}

\* str.lower()
UpperCase == <<"A","B","C","D","E","F","G","H","I","J","K","L","M",
               "N","O","P","Q","R","S","T","U","V","W","X","Y","Z">>
LowerCase == <<"a","b","c","d","e","f","g","h","i","j","k","l","m",
               "n","o","p","q","r","s","t","u","v","w","x","y","z">>

LowerChar(c) ==
    IF \E i \in 1..26 : UpperCase[i] = c
    THEN LowerCase[CHOOSE i \in 1..26 : UpperCase[i] = c]
    ELSE c

lower(s) == [i \in 1..Len(s) |-> LowerChar(s[i])]

\* sub in s
Contains(sub, s) ==
    \E i \in 1..(Len(s) - Len(sub) + 1) : SubSeq(s, i, i + Len(sub) - 1) = sub

\* 'connection' in msg.lower() or 'timeout' in msg.lower() or 'closed' in msg.lower()
IsConnectionErrorAtLine194(error_msg) ==
    \/ Contains(<<"c","o","n","n","e","c","t","i","o","n">>, lower(error_msg))
    \/ Contains(<<"t","i","m","e","o","u","t">>, lower(error_msg))
    \/ Contains(<<"c","l","o","s","e","d">>, lower(error_msg))

\* ---------------------------------------------------------------- state
VARIABLES
    connections,  \* self.connections: device name -> session id, NoConn = no key
    status,       \* per transport session: "unopened", "open" or "closed"
    owner,        \* per transport session: the device it was opened to
    dead,         \* the open sessions that would fail a liveness probe
    pc,           \* position of the running method
    frame,        \* its arguments and local variables
    obs,          \* what the running call has done on the transport
    devices,      \* self.devices: the names in the device registry
    \* diff engine (src/diff_engine.py): one call of compare_configs
    diff_old,     \* its first argument
    diff_new,     \* its second argument
    diff_result,  \* the dictionary it returns
    diff_pc,      \* "idle", "call" before and "returned" after the call
    \* backup store, orchestrator (src/backup_manager.py, src/scheduler.py)
    store,        \* backup files: device name -> (file time stamp -> text)
    now,          \* the clock
    job,          \* the running backup job: position and local variables
    olog,         \* what the running job has done
    \* backup history (src/backup_manager.py): one call of get_latest_backup
    hist_listing,    \* the device directory as os.listdir returns it
    hist_listdir,    \* "ok", or "error" if os.listdir raises
    hist_unreadable, \* the files that os.path.exists or os.stat fails on
    hist_history,    \* the list get_backup_history returns
    hist_latest,     \* what get_latest_backup returns
    hist_pc,         \* "idle", "call" before and "returned" after the call
    \* concurrent callers (src/app.py, src/scheduler.py)
    threads,      \* per thread: the method it runs, position, local variables
    \* device registry (src/config.py, the device API of src/app.py)
    config,       \* self.config['devices']: option name -> value, as texts
    reg           \* the latest registry call: arguments and result

dmVars == <<connections, status, owner, dead, pc, frame, obs>>
diffVars == <<diff_old, diff_new, diff_result, diff_pc>>
orchVars == <<store, now, job, olog>>
histVars == <<hist_listing, hist_listdir, hist_unreadable, hist_history,
              hist_latest, hist_pc>>
concVars == <<threads>>
regVars == <<config, reg>>
vars == <<dmVars, diffVars, orchVars, devices, histVars, concVars, regVars>>

NoFrame ==
    [op |-> "none", dev |-> "r1", retry |-> TRUE, lines |-> 0, ret |-> "done",
     conn |-> NoConn, attempt |-> 0, cmdAttempt |-> 0, result |-> "none"]

NoObs ==
    [attempts |-> 0,        \* ConnectHandler calls of the current connect()
     total |-> 0,           \* ConnectHandler calls of the whole call
     fails |-> 0,           \* of attempts: ended by timeout, error or probe
     first |-> "none",      \* outcome of the first ConnectHandler call
     last |-> "none",       \* outcome of the latest ConnectHandler call
     sleeps |-> <<>>,       \* time.sleep arguments of the current connect()
     probed |-> {},         \* sessions probed by _check_connection
     sends |-> <<>>,        \* session of each command sent
     sentUnprobed |-> FALSE,\* a command went to a session not probed before
     outs |-> <<>>,         \* outcome of each command sent by execute_command
     reconnect |-> "none",  \* outcome of the reconnect after a failed command
     closedOld |-> FALSE,   \* the reconnect path closed the cached session
     stale |-> NoConn]      \* the cached session that failed the probe

\* DeviceManager.__init__
DMInit ==
    /\ connections = [d \in Names |-> NoConn]
    /\ status = [s \in Sids |-> "unopened"]
    /\ owner = [s \in Sids |-> "none"]
    /\ dead = {}
    /\ pc = "idle"
    /\ frame = NoFrame
    /\ obs = NoObs

\* No comparison is running.
DiffIdle ==
    /\ diff_old = <<>>
    /\ diff_new = <<>>
    /\ diff_result = [has_changes |-> FALSE, added_lines |-> 0, removed_lines |-> 0]
    /\ diff_pc = "idle"

\* Python's None; differs from every text.
None == <<"None">>

\* No backup file.
NoKey == -1

NoJob ==
    [op |-> "none", pc |-> "idle", devices |-> {}, todo |-> {}, dev |-> "r1",
     config_content |-> None, latest_backup |-> NoKey, backup_file |-> NoKey,
     success_count |-> 0, fail_count |-> 0, cutoff_date |-> 0]

NoLog ==
    [dev |-> "none",          \* device of the latest _backup_device call
     before |-> <<>>,         \* its backup files when the call began
     captured |-> "none",     \* what execute_command returned to get_config
     stored |-> NoKey,        \* the file the call wrote
     compared |-> FALSE,      \* compare_configs was called
     prior |-> None,          \* its first argument
     alerts |-> 0,            \* send_alert calls
     email_result |-> TRUE,   \* what send_alert returned
     outcome |-> "none",      \* how the call ended
     counted |-> "none",      \* the counter backup_all_devices raised for it
     ran |-> {},              \* devices _backup_device was called for in this run
     recorded |-> {},         \* of these: a backup file was written
     outcomes |-> [d \in Names |-> "none"],  \* how the call for each ended
     pruneBefore |-> [d \in Names |-> <<>>],  \* all backup files when cleanup_old_backups began
     prune |-> "none",        \* "running", "returned" or "raised"
     pruneFailed |-> "none",  \* the device whose directory it failed on
     steps |-> <<>>]          \* the steps of the latest _backup_device call

\* BackupManager.__init__, BackupScheduler.__init__: no backup yet, no job.
OrchIdle ==
    /\ store = [d \in Names |-> <<>>]
    /\ now = 0
    /\ job = NoJob
    /\ olog = NoLog

\* No call of get_latest_backup is running.
HistIdle ==
    /\ hist_listing = <<>>
    /\ hist_listdir = "ok"
    /\ hist_unreadable = {}
    /\ hist_history = <<>>
    /\ hist_latest = NoKey
    /\ hist_pc = "idle"

\* The threads of the process.
Threads == {"job", "request"}

NoThread ==
    [op |-> "none", pc |-> "idle", dev |-> "r1", todo |-> {},
     connection |-> NoConn, attempt |-> 0, config_content |-> None,
     backup_file |-> NoKey, files |-> {}]

\* No thread is in a method.
ConcIdle == threads = [t \in Threads |-> NoThread]

\* The text as a string, the form of a key of self.devices and
\* self.connections.
RECURSIVE Str(_)
Str(s) == IF s = <<>> THEN "" ELSE Head(s) \o Str(Tail(s))

\* The value add_device and update_device store (lines 119 and 155).
ValueOf(ip, username, password, device_type) ==
    ip \o <<",">> \o username \o <<",">> \o password \o <<",">> \o device_type

\* The device names as texts.
DeviceKeys == {<<"r","1">>, <<"r","2">>, <<"r","9">>}

\* Config.load_config(), lines 15-21: the section 'devices' of a
\* configuration file that lists the devices devs.
ConfigFile(devs) ==
    [name \in {k \in DeviceKeys : Str(k) \in devs} |->
        ValueOf(<<"h","1">>, <<"u">>, <<"p">>, <<"i","o","s">>)]

NoReg ==
    [op |-> "none", name |-> <<>>, ip |-> <<>>, username |-> <<>>, password |-> <<>>,
     device_type |-> <<>>, success |-> FALSE, before |-> ConfigFile({})]

\* Config.__init__: the registry is what the configuration file lists, no
\* call was made.
RegIdle ==
    /\ config = ConfigFile(devices)
    /\ reg = NoReg

\* Everything but the device manager is at rest.
RestIdle == DiffIdle /\ HistIdle /\ ConcIdle

\* DeviceManager.__init__, line 21: the registry is what the configuration
\* file lists.
Init == DMInit /\ RestIdle /\ OrchIdle /\ devices = ConfiguredDevices /\ RegIdle

Idle == pc \in {"idle", "done"}

\* The next unused session id, 0 when the environment has none left.
NextSid == IF \E s \in Sids : status[s] = "unopened"
           THEN CHOOSE s \in Sids : status[s] = "unopened"
                                    /\ \A t \in Sids : status[t] = "unopened" => s <= t
           ELSE 0

\* _check_connection(connection): the probe passes unless the session is dead.
CheckConnection(s) == s # NoConn /\ s \notin dead

\* ---------------------------------------------------------------- connect
\* Outcomes of one pass of the loop body of connect().
AttemptOutcomes == {"ok", "probe_fail", "timeout", "auth", "error"}

\* Variant of InRegistry: every name passes.
InRegistry_Always(devs, device_name) == TRUE

\* `device_name in self.devices` (lines 58 and 269).
InRegistry(devs, device_name) == device_name \in devs

\* Variant of DropEntry: the entry stays.
DropEntry_Keeps(conns, d) == conns

\* del self.connections[device_name] (lines 76 and 164).
DropEntry(conns, d) == [conns EXCEPT ![d] = NoConn]

\* connect(), lines 58-84: registry lookup and the cached connection.
ConnectCheckCache ==
    /\ pc = "connect"
    /\ LET d == frame.dev
           c == connections[d]
       IN IF ~InRegistry(devices, d)
          THEN /\ frame' = [frame EXCEPT !.conn = NoConn]
               /\ pc' = frame.ret
               /\ obs' = [obs EXCEPT !.attempts = 0, !.fails = 0, !.sleeps = <<>>]
               /\ UNCHANGED <<connections, status, dead>>
          ELSE IF c # NoConn
          THEN IF CheckConnection(c)
               THEN /\ frame' = [frame EXCEPT !.conn = c]
                    /\ pc' = frame.ret
                    /\ obs' = [obs EXCEPT !.attempts = 0, !.fails = 0, !.sleeps = <<>>,
                                          !.probed = @ \cup {c}]
                    /\ UNCHANGED <<connections, status, dead>>
               ELSE /\ status' = [status EXCEPT ![c] = "closed"]
                    /\ dead' = dead \ {c}
                    /\ connections' = DropEntry(connections, d)
                    /\ frame' = [frame EXCEPT !.attempt = 1]
                    /\ pc' = "attempt"
                    /\ obs' = [obs EXCEPT !.attempts = 0, !.fails = 0, !.sleeps = <<>>,
                                          !.probed = @ \cup {c}, !.stale = c]
          ELSE /\ frame' = [frame EXCEPT !.attempt = 1]
               /\ pc' = "attempt"
               /\ obs' = [obs EXCEPT !.attempts = 0, !.fails = 0, !.sleeps = <<>>]
               /\ UNCHANGED <<connections, status, dead>>
    /\ UNCHANGED owner

\* Variant of BackoffDelay: the same delay before every retry.
BackoffDelay_Constant(attempt) == retry_delay

\* time.sleep argument before attempt k (line 91).
BackoffDelay(attempt) == retry_delay * (attempt - 1)

\* Variant of LoopVerdict: an authentication rejection is retried like any
\* other exception.
LoopVerdict_AuthRetried(outcome, attempt) ==
    CASE outcome = "ok" -> "cache"
      [] outcome \in {"auth", "probe_fail", "timeout", "error"} ->
           IF attempt < connection_retries THEN "retry" ELSE "return"

\* Variant of LoopVerdict: the loop runs one pass too many.
LoopVerdict_OneMore(outcome, attempt) ==
    CASE outcome = "ok" -> "cache"
      [] outcome = "auth" -> "return"
      [] outcome \in {"probe_fail", "timeout", "error"} ->
           IF attempt < connection_retries + 1 THEN "retry" ELSE "return"

\* Variant of LoopVerdict: a failed probe of the new session ends connect()
\* at once.
LoopVerdict_ProbeFailEnds(outcome, attempt) ==
    CASE outcome = "ok" -> "cache"
      [] outcome \in {"auth", "probe_fail"} -> "return"
      [] outcome \in {"timeout", "error"} ->
           IF attempt < connection_retries THEN "retry" ELSE "return"

\* What the loop of connect() does with the outcome of pass `attempt`
\* (lines 106-139): cache the session and return it, go round again, or
\* return None.
LoopVerdict(outcome, attempt) ==
    CASE outcome = "ok" -> "cache"
      [] outcome = "auth" -> "return"
      [] outcome \in {"probe_fail", "timeout", "error"} ->
           IF attempt < connection_retries THEN "retry" ELSE "return"

\* connect(), lines 86-139: one pass of the retry loop.
ConnectAttempt(outcome) ==
    /\ pc = "attempt"
    /\ outcome \in {"ok", "probe_fail"} => NextSid # 0
    /\ LET d == frame.dev
           k == frame.attempt
           s == NextSid
           o1 == [obs EXCEPT !.attempts = @ + 1, !.total = @ + 1,
                             !.first = IF obs.total = 0 THEN outcome ELSE @,
                             !.last = outcome,
                             !.sleeps = IF k > 1 THEN Append(@, BackoffDelay(k)) ELSE @]
           o2 == IF outcome \in {"ok", "probe_fail"}
                 THEN [o1 EXCEPT !.probed = @ \cup {s}] ELSE o1
       IN /\ obs' = IF outcome \in {"probe_fail", "timeout", "error"}
                    THEN [o2 EXCEPT !.fails = @ + 1] ELSE o2
          \* ConnectHandler(...) and the probe of the new session
          /\ CASE outcome = "ok" ->
                    /\ status' = [status EXCEPT ![s] = "open"]
                    /\ owner' = [owner EXCEPT ![s] = d]
               [] outcome = "probe_fail" ->
                    /\ status' = [status EXCEPT ![s] = "closed"]
                    /\ owner' = [owner EXCEPT ![s] = d]
               [] OTHER -> UNCHANGED <<status, owner>>
          /\ CASE LoopVerdict(outcome, k) = "cache" ->
                    /\ connections' = [connections EXCEPT ![d] = IF outcome = "ok" THEN s ELSE @]
                    /\ frame' = [frame EXCEPT !.conn = IF outcome = "ok" THEN s ELSE NoConn]
                    /\ pc' = frame.ret
               [] LoopVerdict(outcome, k) = "retry" ->
                    /\ frame' = [frame EXCEPT !.attempt = k + 1]
                    /\ pc' = "attempt"
                    /\ UNCHANGED connections
               [] LoopVerdict(outcome, k) = "return" ->
                    /\ frame' = [frame EXCEPT !.conn = NoConn]
                    /\ pc' = frame.ret
                    /\ UNCHANGED connections
    /\ UNCHANGED dead

\* A caller invokes connect(device_name).
CallConnect(d) ==
    /\ Idle
    /\ frame' = [NoFrame EXCEPT !.op = "connect", !.dev = d, !.ret = "connect_done"]
    /\ obs' = NoObs
    /\ pc' = "connect"
    /\ UNCHANGED <<connections, status, owner, dead>>

\* connect() returns to its caller.
ConnectDone ==
    /\ pc = "connect_done"
    /\ frame' = [frame EXCEPT !.result = IF frame.conn = NoConn THEN "none" ELSE "conn"]
    /\ pc' = "done"
    /\ UNCHANGED <<connections, status, owner, dead, obs>>

\* -------------------------------------------------------- execute_command
\* Results of send_command: some text, the empty text, or an exception.
SendOutcomes == {"text", "empty"} \cup Exceptions

\* Variant of MaxAttempts: one more pass of the command loop.
MaxAttempts_Three(retry_on_failure) == IF retry_on_failure THEN 3 ELSE 1

\* max_attempts (line 175).
MaxAttempts(retry_on_failure) == IF retry_on_failure THEN 2 ELSE 1

\* A caller invokes execute_command(device_name, command, retry_on_failure).
CallExecute(d, retry_on_failure) ==
    /\ Idle
    /\ frame' = [NoFrame EXCEPT !.op = "exec", !.dev = d, !.retry = retry_on_failure]
    /\ obs' = NoObs
    /\ pc' = "exec"
    /\ UNCHANGED <<connections, status, owner, dead>>

\* execute_command(), lines 153-172: take the cached connection if it passes
\* the probe, else drop it and connect.
ExecStart ==
    /\ pc = "exec"
    /\ LET d == frame.dev
           c == connections[d]
       IN IF c = NoConn
          THEN /\ frame' = [frame EXCEPT !.ret = "exec_connected"]
               /\ pc' = "connect"
               /\ UNCHANGED <<connections, status, dead, obs>>
          ELSE IF CheckConnection(c)
          THEN /\ frame' = [frame EXCEPT !.conn = c, !.cmdAttempt = 1]
               /\ pc' = "send"
               /\ obs' = [obs EXCEPT !.probed = @ \cup {c}]
               /\ UNCHANGED <<connections, status, dead>>
          ELSE /\ status' = [status EXCEPT ![c] = "closed"]
               /\ dead' = dead \ {c}
               /\ connections' = DropEntry(connections, d)
               /\ frame' = [frame EXCEPT !.ret = "exec_connected"]
               /\ pc' = "connect"
               /\ obs' = [obs EXCEPT !.probed = @ \cup {c}, !.stale = c]
    /\ UNCHANGED owner

\* execute_command(), lines 167-170: connect() has returned.
ExecAfterConnect ==
    /\ pc = "exec_connected"
    /\ IF frame.conn = NoConn
       THEN /\ frame' = [frame EXCEPT !.result = "none"]
            /\ pc' = "done"
       ELSE /\ frame' = [frame EXCEPT !.cmdAttempt = 1]
            /\ pc' = "send"
    /\ UNCHANGED <<connections, status, owner, dead, obs>>

\* Variant of ReturnValue: an empty output is returned as None.
ReturnValue_EmptyIsNone(output) == IF output = "empty" THEN "none" ELSE output

\* What execute_command returns for the output of send_command (lines 182-186).
ReturnValue(output) == output

\* Variant of ExceptBranch: the first failed attempt reconnects whatever
\* retry_on_failure says.
ExceptBranch_RetryAlways(retry_on_failure, attempt, e) ==
    IF attempt < 2
    THEN IF IsConnectionErrorAtLine194(Message(e)) THEN "reconnect" ELSE "return"
    ELSE "clear"

\* Variant of ExceptBranch: the last failed attempt returns without
\* clearing the cache.
ExceptBranch_NoClear(retry_on_failure, attempt, e) ==
    IF retry_on_failure /\ attempt < MaxAttempts(retry_on_failure)
       /\ IsConnectionErrorAtLine194(Message(e))
    THEN "reconnect"
    ELSE "return"

\* The branch the except clause of execute_command takes (lines 193-226).
ExceptBranch(retry_on_failure, attempt, e) ==
    IF retry_on_failure /\ attempt < MaxAttempts(retry_on_failure)
    THEN IF IsConnectionErrorAtLine194(Message(e)) THEN "reconnect" ELSE "return"
    ELSE "clear"

\* execute_command(), lines 177-226: one pass of the command loop.
ExecSend(out) ==
    /\ pc = "send"
    /\ frame.conn \in dead => (out \in Exceptions /\ Transient(out))
    /\ LET d == frame.dev
           k == frame.cmdAttempt
           c == connections[d]
           o1 == [obs EXCEPT !.sends = Append(@, frame.conn),
                             !.outs = Append(@, out),
                             !.sentUnprobed = @ \/ frame.conn \notin obs.probed]
       IN IF out \in {"text", "empty"}
          THEN /\ frame' = [frame EXCEPT !.result = ReturnValue(out)]
               /\ pc' = "done"
               /\ obs' = o1
               /\ UNCHANGED <<connections, status, dead>>
          ELSE CASE ExceptBranch(frame.retry, k, out) = "reconnect" ->
                      /\ IF c # NoConn
                         THEN /\ status' = [status EXCEPT ![c] = "closed"]
                              /\ dead' = dead \ {c}
                              /\ connections' = [connections EXCEPT ![d] = NoConn]
                         ELSE UNCHANGED <<connections, status, dead>>
                      /\ frame' = [frame EXCEPT !.ret = "exec_reconnected"]
                      /\ pc' = "connect"
                      /\ obs' = [o1 EXCEPT !.closedOld = (c # NoConn)]
                 [] ExceptBranch(frame.retry, k, out) = "return" ->
                      /\ frame' = [frame EXCEPT !.result = "none"]
                      /\ pc' = "done"
                      /\ obs' = o1
                      /\ UNCHANGED <<connections, status, dead>>
                 [] ExceptBranch(frame.retry, k, out) = "clear" ->
                      /\ IF c # NoConn
                         THEN /\ status' = [status EXCEPT ![c] = "closed"]
                              /\ dead' = dead \ {c}
                              /\ connections' = [connections EXCEPT ![d] = NoConn]
                         ELSE UNCHANGED <<connections, status, dead>>
                      /\ frame' = [frame EXCEPT !.result = "none"]
                      /\ pc' = "done"
                      /\ obs' = o1
    /\ UNCHANGED owner

\* execute_command(), lines 205-211: the reconnect has returned.
ExecAfterReconnect ==
    /\ pc = "exec_reconnected"
    /\ IF frame.conn # NoConn
       THEN /\ frame' = [frame EXCEPT !.cmdAttempt = @ + 1]
            /\ pc' = "send"
            /\ obs' = [obs EXCEPT !.reconnect = "ok"]
       ELSE /\ frame' = [frame EXCEPT !.result = "none"]
            /\ pc' = "done"
            /\ obs' = [obs EXCEPT !.reconnect = "failed"]
    /\ UNCHANGED <<connections, status, owner, dead>>

\* --------------------------------------------------------- restore_config
\* Lines of a configuration text handed to restore_config.
IsConfigLine(line) ==
    line \notin {"", "! comment", "Building configuration...",
                 "Current configuration : 1024 bytes"}

\* config_lines (lines 290-298).
ConfigLines(content) == SelectSeq(content, IsConfigLine)

Contents == {<<>>, <<"! comment", "">>, <<"Building configuration...", "hostname R1">>}

\* A caller invokes restore_config(device_name, config_content).
CallRestore(d, content) ==
    /\ Idle
    /\ frame' = [NoFrame EXCEPT !.op = "restore", !.dev = d,
                                !.lines = Len(ConfigLines(content))]
    /\ obs' = NoObs
    /\ pc' = "restore"
    /\ UNCHANGED <<connections, status, owner, dead>>

\* restore_config(), lines 269-286: registry lookup, then the cached
\* connection as it is, or connect().
RestoreStart ==
    /\ pc = "restore"
    /\ LET d == frame.dev
           c == connections[d]
       IN IF ~InRegistry(devices, d)
          THEN /\ frame' = [frame EXCEPT !.result = "fail"]
               /\ pc' = "done"
          ELSE IF c = NoConn
          THEN /\ frame' = [frame EXCEPT !.ret = "restore_connected"]
               /\ pc' = "connect"
          ELSE /\ frame' = [frame EXCEPT !.conn = c]
               /\ pc' = "restore_send"
    /\ UNCHANGED <<connections, status, owner, dead, obs>>

\* restore_config(), lines 280-286: connect() has returned.
RestoreAfterConnect ==
    /\ pc = "restore_connected"
    /\ IF frame.conn = NoConn
       THEN /\ frame' = [frame EXCEPT !.result = "fail"]
            /\ pc' = "done"
       ELSE pc' = "restore_send" /\ UNCHANGED frame
    /\ UNCHANGED <<connections, status, owner, dead, obs>>

\* restore_config(), lines 288-338: send the configuration lines, then the
\* save command.  out: "ok", or which of the two sends raises.
RestoreSend(out) ==
    /\ pc = "restore_send"
    /\ out \in {"ok", "config_raise", "save_raise"}
    /\ frame.conn \in dead => out = "config_raise"
    /\ frame.lines = 0 => out = "ok"
    /\ LET d == frame.dev
           s == frame.conn
           n == IF out = "config_raise" THEN 1 ELSE 2
       IN IF frame.lines = 0
          THEN /\ frame' = [frame EXCEPT !.result = "fail"]
               /\ UNCHANGED <<connections, status, dead, obs>>
          ELSE /\ obs' = [obs EXCEPT !.sends = @ \o [i \in 1..n |-> s],
                                     !.sentUnprobed = @ \/ s \notin obs.probed]
               /\ IF out = "ok"
                  THEN /\ frame' = [frame EXCEPT !.result = "ok"]
                       /\ UNCHANGED <<connections, status, dead>>
                  ELSE \* except clause, lines 327-338: the cache entry is
                       \* deleted, disconnect() is not called
                       /\ frame' = [frame EXCEPT !.result = "fail"]
                       /\ connections' = [connections EXCEPT ![d] = NoConn]
                       /\ UNCHANGED <<status, dead>>
    /\ pc' = "done"
    /\ UNCHANGED owner

\* ------------------------------------------------- disconnect, disconnect_all
\* What connection.disconnect() does at line 376: it returns, or it raises and
\* the bare except of line 377 swallows the exception.
CloseOutcomes == {"ok", "raise"}

\* Variant of Disconnect: the entry is deleted only after a close that
\* returned.
Disconnect_KeepsOnRaise(d, closing) ==
    /\ Idle
    /\ closing = "raise" => connections[d] # NoConn
    /\ LET c == connections[d]
       IN IF c # NoConn /\ closing = "ok"
          THEN /\ status' = [status EXCEPT ![c] = "closed"]
               /\ dead' = dead \ {c}
               /\ connections' = [connections EXCEPT ![d] = NoConn]
          ELSE UNCHANGED <<connections, status, dead>>
    /\ frame' = [NoFrame EXCEPT !.op = "disconnect", !.dev = d,
                                !.result = IF closing = "raise" THEN "close_raised" ELSE "none"]
    /\ obs' = NoObs
    /\ pc' = "done"
    /\ UNCHANGED owner

\* disconnect(device_name), lines 374-381.  closing: what the close of the
\* cached session does; the finally clause deletes the entry either way, and
\* the handle, the last reference to the session, is dropped with it.
Disconnect(d, closing) ==
    /\ Idle
    /\ closing = "raise" => connections[d] # NoConn
    /\ LET c == connections[d]
       IN IF c # NoConn
          THEN /\ status' = [status EXCEPT ![c] = "closed"]
               /\ dead' = dead \ {c}
               /\ connections' = [connections EXCEPT ![d] = NoConn]
          ELSE UNCHANGED <<connections, status, dead>>
    /\ frame' = [NoFrame EXCEPT !.op = "disconnect", !.dev = d,
                                !.result = IF closing = "raise" THEN "close_raised" ELSE "none"]
    /\ obs' = NoObs
    /\ pc' = "done"
    /\ UNCHANGED owner

\* disconnect_all(), lines 385-386: disconnect() for every key of the cache.
DisconnectAll ==
    /\ Idle
    /\ status' = [s \in Sids |->
                    IF \E d \in Names : connections[d] = s THEN "closed" ELSE status[s]]
    /\ dead' = {s \in dead : \A d \in Names : connections[d] # s}
    /\ connections' = [d \in Names |-> NoConn]
    /\ frame' = [NoFrame EXCEPT !.op = "disconnect_all"]
    /\ obs' = NoObs
    /\ pc' = "done"
    /\ UNCHANGED owner

\* ------------------------------------------------------------ environment
\* The network drops an open session: from now on it fails the probe.
SessionDies(s) ==
    /\ Idle
    /\ status[s] = "open"
    /\ s \notin dead
    /\ dead' = dead \cup {s}
    /\ UNCHANGED <<connections, status, owner, pc, frame, obs>>

\* ---------------------------------------------------------- specification
Next ==
    \/ (\E d \in Names : CallConnect(d)) /\ UNCHANGED <<diffVars, orchVars, devices, histVars, concVars, regVars>>
    \/ ConnectCheckCache /\ UNCHANGED <<diffVars, orchVars, devices, histVars, concVars, regVars>>
    \/ (\E o \in AttemptOutcomes : ConnectAttempt(o)) /\ UNCHANGED <<diffVars, orchVars, devices, histVars, concVars, regVars>>
    \/ ConnectDone /\ UNCHANGED <<diffVars, orchVars, devices, histVars, concVars, regVars>>
    \/ (\E d \in Names, r \in BOOLEAN : CallExecute(d, r)) /\ UNCHANGED <<diffVars, orchVars, devices, histVars, concVars, regVars>>
    \/ ExecStart /\ UNCHANGED <<diffVars, orchVars, devices, histVars, concVars, regVars>>
    \/ ExecAfterConnect /\ UNCHANGED <<diffVars, orchVars, devices, histVars, concVars, regVars>>
    \/ (\E o \in SendOutcomes : ExecSend(o)) /\ UNCHANGED <<diffVars, orchVars, devices, histVars, concVars, regVars>>
    \/ ExecAfterReconnect /\ UNCHANGED <<diffVars, orchVars, devices, histVars, concVars, regVars>>
    \/ (\E d \in Names, c \in Contents : CallRestore(d, c)) /\ UNCHANGED <<diffVars, orchVars, devices, histVars, concVars, regVars>>
    \/ RestoreStart /\ UNCHANGED <<diffVars, orchVars, devices, histVars, concVars, regVars>>
    \/ RestoreAfterConnect /\ UNCHANGED <<diffVars, orchVars, devices, histVars, concVars, regVars>>
    \/ (\E o \in {"ok", "config_raise", "save_raise"} : RestoreSend(o)) /\ UNCHANGED <<diffVars, orchVars, devices, histVars, concVars, regVars>>
    \/ (\E d \in Names, c \in CloseOutcomes : Disconnect(d, c)) /\ UNCHANGED <<diffVars, orchVars, devices, histVars, concVars, regVars>>
    \/ DisconnectAll /\ UNCHANGED <<diffVars, orchVars, devices, histVars, concVars, regVars>>
    \/ (\E s \in Sids : SessionDies(s)) /\ UNCHANGED <<diffVars, orchVars, devices, histVars, concVars, regVars>>

Spec == Init /\ [][Next]_vars

TypeOK ==
    /\ connections \in [Names -> Sids \cup {NoConn}]
    /\ status \in [Sids -> {"unopened", "open", "closed"}]
    /\ dead \subseteq {s \in Sids : status[s] = "open"}
    /\ \A d \in Names : connections[d] # NoConn => owner[connections[d]] = d

\* ============================================================ diff engine
\* src/diff_engine.py.  A text is a sequence of characters, "\n" the line
\* break; a line list is a sequence of such sequences.

\* ---------------------------------------------------------------- bounds
\* Longest configuration text, in lines, handed to compare_configs.
MaxLines == 3

\* The one element of a singleton set.  {F(v) : v \in {e}} evaluates e once
\* and hands F its value.
Only(S) == CHOOSE x \in S : TRUE

\* str.strip(): whitespace of the texts is the blank, the tab and the line break.
IsSpace(c) == c \in {" ", "\t", "\n"}

strip(s) ==
    LET keep == {i \in 1..Len(s) : ~IsSpace(s[i])}
    IN IF keep = {} THEN <<>>
       ELSE SubSeq(s, CHOOSE i \in keep : \A j \in keep : i <= j,
                      CHOOSE i \in keep : \A j \in keep : i >= j)

\* str.startswith(prefix)
startswith(s, prefix) ==
    Len(s) >= Len(prefix) /\ SubSeq(s, 1, Len(prefix)) = prefix

\* str.splitlines(keepends): a line ends at each line break and at the end
\* of the text.
SplitAt(s, ends, keepends) ==
    LET endAt(k) == CHOOSE e \in ends : Cardinality({f \in ends : f <= e}) = k
        startAt(k) == IF k = 1 THEN 1 ELSE endAt(k - 1) + 1
        cut(k) == IF s[endAt(k)] = "\n" /\ ~keepends THEN 1 ELSE 0
    IN [k \in 1..Cardinality(ends) |-> SubSeq(s, startAt(k), endAt(k) - cut(k))]

splitlines(s, keepends) ==
    Only({SplitAt(s, ends, keepends) :
            ends \in {{i \in 1..Len(s) : s[i] = "\n" \/ i = Len(s)}}})

\* ''.join(lines)
RECURSIVE join(_)
join(lines) == IF lines = <<>> THEN <<>> ELSE Head(lines) \o join(Tail(lines))

\* skip_patterns (lines 26-33), as written in the source.
skip_patterns ==
    {<<"c","l","o","c","k">>,
     <<"n","t","p"," ","c","l","o","c","k","-","p","e","r","i","o","d">>,
     <<"!","T","i","m","e",":">>,
     <<"!","L","a","s","t"," ","c","o","n","f","i","g","u","r","a","t","i","o","n"," ","c","h","a","n","g","e">>,
     <<"!","N","V","R","A","M"," ","c","o","n","f","i","g"," ","l","a","s","t"," ","u","p","d","a","t","e","d">>,
     <<"v","e","r","s","i","o","n"," ">>}

\* The test of the loop body of _filter_dynamic_lines (lines 36-53): is the
\* line appended to filtered?
KeepsLine(line) ==
    \A line_lower \in {strip(lower(line))} :
       IF line_lower = <<>> \/ startswith(line_lower, <<"!">>)
       THEN ~(\/ Contains(<<"!","l","a","s","t">>, line_lower)
              \/ Contains(<<"!","n","v","r","a","m">>, line_lower))
       ELSE ~(\E pattern \in skip_patterns : Contains(pattern, line_lower))

\* _filter_dynamic_lines(lines), lines 14-55.
filter_dynamic_lines(lines) == SelectSeq(lines, KeepsLine)

\* ------------------------------------------------ difflib.SequenceMatcher
\* Indices are those of Python: positions 0..Len-1, ranges half open.
\* Length of the longest common run of a[i:ahi] and b[j:bhi] starting at i, j.
RECURSIVE RunLen(_, _, _, _, _, _)
RunLen(a, b, i, ahi, j, bhi) ==
    IF i < ahi /\ j < bhi /\ a[i + 1] = b[j + 1]
    THEN 1 + RunLen(a, b, i + 1, ahi, j + 1, bhi)
    ELSE 0

\* find_longest_match(alo, ahi, blo, bhi): the longest matching block, of
\* those the one that starts earliest in a, of those the earliest in b.
find_longest_match(a, b, alo, ahi, blo, bhi) ==
    Only({LET best == IF runs = {} THEN 0
                      ELSE CHOOSE k \in 0..(ahi - alo) :
                              /\ \A r \in runs : r[3] <= k
                              /\ \E r \in runs : r[3] = k
              cands == {r \in runs : r[3] = best}
              first == CHOOSE p \in cands : \A q \in cands :
                          p[1] < q[1] \/ (p[1] = q[1] /\ p[2] <= q[2])
          IN IF best = 0 THEN <<alo, blo, 0>> ELSE first
          : runs \in {{<<i, j, RunLen(a, b, i, ahi, j, bhi)>> :
                          i \in alo..(ahi - 1), j \in blo..(bhi - 1)}}})

\* The recursion of get_matching_blocks, blocks in increasing order.
RECURSIVE matching_blocks(_, _, _, _, _, _)
matching_blocks(a, b, alo, ahi, blo, bhi) ==
    Only({LET i == x[1]
              j == x[2]
              k == x[3]
          IN IF k = 0 THEN <<>>
             ELSE (IF alo < i /\ blo < j
                   THEN matching_blocks(a, b, alo, i, blo, j) ELSE <<>>)
                  \o <<x>>
                  \o (IF i + k < ahi /\ j + k < bhi
                      THEN matching_blocks(a, b, i + k, ahi, j + k, bhi) ELSE <<>>)
          : x \in {find_longest_match(a, b, alo, ahi, blo, bhi)}})

\* Adjacent blocks are merged into one.
RECURSIVE collapse(_)
collapse(blocks) ==
    IF Len(blocks) < 2 THEN blocks
    ELSE LET x == blocks[1]
             y == blocks[2]
         IN IF x[1] + x[3] = y[1] /\ x[2] + x[3] = y[2]
            THEN collapse(<<<<x[1], x[2], x[3] + y[3]>>>> \o SubSeq(blocks, 3, Len(blocks)))
            ELSE <<x>> \o collapse(Tail(blocks))

\* get_matching_blocks(): the merged blocks and the closing (la, lb, 0).
get_matching_blocks(a, b) ==
    Only({collapse(blocks) : blocks \in {matching_blocks(a, b, 0, Len(a), 0, Len(b))}})
    \o <<<<Len(a), Len(b), 0>>>>

\* get_opcodes(): <<tag, i1, i2, j1, j2>> from the matching blocks.
RECURSIVE opcodes_from(_, _, _)
opcodes_from(blocks, i, j) ==
    IF blocks = <<>> THEN <<>>
    ELSE LET ai == blocks[1][1]
             bj == blocks[1][2]
             size == blocks[1][3]
             tag == IF i < ai /\ j < bj THEN "replace"
                    ELSE IF i < ai THEN "delete"
                    ELSE IF j < bj THEN "insert"
                    ELSE ""
         IN (IF tag # "" THEN <<<<tag, i, ai, j, bj>>>> ELSE <<>>)
            \o (IF size > 0 THEN <<<<"equal", ai, ai + size, bj, bj + size>>>> ELSE <<>>)
            \o opcodes_from(Tail(blocks), ai + size, bj + size)

get_opcodes(a, b) ==
    Only({opcodes_from(blocks, 0, 0) : blocks \in {get_matching_blocks(a, b)}})

Max2(x, y) == IF x > y THEN x ELSE y
Min2(x, y) == IF x < y THEN x ELSE y

\* The loop of get_grouped_opcodes(n); acc = <<finished groups, open group>>.
RECURSIVE group_loop(_, _, _, _)
group_loop(codes, n, groups, group) ==
    IF codes = <<>>
    THEN IF group # <<>> /\ ~(Len(group) = 1 /\ group[1][1] = "equal")
         THEN Append(groups, group) ELSE groups
    ELSE LET c == codes[1]
         IN IF c[1] = "equal" /\ c[3] - c[2] > n + n
            THEN group_loop(Tail(codes), n,
                     Append(groups, Append(group,
                         <<"equal", c[2], Min2(c[3], c[2] + n), c[4], Min2(c[5], c[4] + n)>>)),
                     <<<<"equal", Max2(c[2], c[3] - n), c[3], Max2(c[4], c[5] - n), c[5]>>>>)
            ELSE group_loop(Tail(codes), n, groups, Append(group, c))

\* get_grouped_opcodes(n): the first and the last opcode, when equal, are
\* cut to n lines of context.
TrimFirst(codes, n) ==
    LET f == codes[1]
    IN IF f[1] = "equal"
       THEN [codes EXCEPT ![1] = <<"equal", Max2(f[2], f[3] - n), f[3],
                                   Max2(f[4], f[5] - n), f[5]>>]
       ELSE codes

TrimLast(codes, n) ==
    LET l == codes[Len(codes)]
    IN IF l[1] = "equal"
       THEN [codes EXCEPT ![Len(codes)] = <<"equal", l[2], Min2(l[3], l[2] + n),
                                            l[4], Min2(l[5], l[4] + n)>>]
       ELSE codes

get_grouped_opcodes(a, b, n) ==
    Only({Only({Only({group_loop(c2, n, <<>>, <<>>) : c2 \in {TrimLast(c1, n)}})
                : c1 \in {TrimFirst(IF c0 = <<>> THEN <<<<"equal", 0, 1, 0, 1>>>> ELSE c0, n)}})
          : c0 \in {get_opcodes(a, b)}})

\* ------------------------------------------------------ difflib.unified_diff
\* Decimal digits of a natural number.
RECURSIVE str(_)
str(k) ==
    LET digit == <<"0","1","2","3","4","5","6","7","8","9">>
    IN IF k < 10 THEN <<digit[k + 1]>> ELSE str(k \div 10) \o <<digit[(k % 10) + 1]>>

\* _format_range_unified(start, stop)
format_range_unified(start, stop) ==
    LET beginning == start + 1
        length == stop - start
    IN IF length = 1 THEN str(beginning)
       ELSE str(IF length = 0 THEN beginning - 1 ELSE beginning) \o <<",">> \o str(length)

\* a[i1:i2] with every line prefixed by the tag character.
Tagged(tagchar, lines, i1, i2) == [k \in 1..(i2 - i1) |-> <<tagchar>> \o lines[i1 + k]]

\* The lines unified_diff yields for one opcode.
OpcodeLines(a, b, c) ==
    IF c[1] = "equal" THEN Tagged(" ", a, c[2], c[3])
    ELSE (IF c[1] \in {"replace", "delete"} THEN Tagged("-", a, c[2], c[3]) ELSE <<>>)
         \o (IF c[1] \in {"replace", "insert"} THEN Tagged("+", b, c[4], c[5]) ELSE <<>>)

RECURSIVE GroupLines(_, _, _)
GroupLines(a, b, group) ==
    IF group = <<>> THEN <<>>
    ELSE OpcodeLines(a, b, group[1]) \o GroupLines(a, b, Tail(group))

\* The hunk header: '@@ -{} +{} @@' with lineterm = ''.
HunkHeader(group) ==
    LET first == group[1]
        last == group[Len(group)]
    IN <<"@","@">> \o <<" ","-">> \o format_range_unified(first[2], last[3])
       \o <<" ","+">> \o format_range_unified(first[4], last[5]) \o <<" ">> \o <<"@","@">>

RECURSIVE HunksLines(_, _, _)
HunksLines(a, b, groups) ==
    IF groups = <<>> THEN <<>>
    ELSE <<HunkHeader(groups[1])>> \o GroupLines(a, b, groups[1])
         \o HunksLines(a, b, Tail(groups))

\* unified_diff(a, b, fromfile='old_config', tofile='new_config',
\* lineterm='', n=3): the sequence of lines it yields.
unified_diff(a, b) ==
    Only({IF groups = <<>> THEN <<>>
          ELSE <<<<"-","-","-"," ","o","l","d","_","c","o","n","f","i","g">>,
                 <<"+","+","+"," ","n","e","w","_","c","o","n","f","i","g">>>>
               \o HunksLines(a, b, groups)
          : groups \in {get_grouped_opcodes(a, b, 3)}})

\* ----------------------------------------------------------- compare_configs
NoChanges_Flagged ==
    [has_changes |-> TRUE, added_lines |-> 0, removed_lines |-> 0]

NoChanges == [has_changes |-> FALSE, added_lines |-> 0, removed_lines |-> 0]

\* Lines 116-119: the number of lines of diff_text that start with the
\* sign but not with three of it.
CountLines(diff_text, sign) ==
    Only({Cardinality({k \in 1..Len(diff_lines) :
                  /\ startswith(diff_lines[k], <<sign>>)
                  /\ ~startswith(diff_lines[k], <<sign, sign, sign>>)})
          : diff_lines \in {splitlines(diff_text, FALSE)}})

\* compare_configs, lines 104-139: the diff of the filtered line lists.
CompareFiltered(old_filtered, new_filtered) ==
    Only({IF strip(diff_text) = <<>> THEN NoChanges
          ELSE [has_changes |-> TRUE,
                added_lines |-> CountLines(diff_text, "+"),
                removed_lines |-> CountLines(diff_text, "-")]
          : diff_text \in {join(unified_diff(old_filtered, new_filtered))}})

\* compare_configs, lines 82-102: the texts differ; split, filter, compare
\* again.
CompareStripped(old_config, new_config) ==
    Only({IF strip(join(old_filtered)) = strip(join(new_filtered)) THEN NoChanges
          ELSE CompareFiltered(old_filtered, new_filtered)
          : old_filtered \in {filter_dynamic_lines(splitlines(old_config, TRUE))},
            new_filtered \in {filter_dynamic_lines(splitlines(new_config, TRUE))}})

\* compare_configs(old_config, new_config), lines 69-139.
compare_configs(old_config, new_config) ==
    Only({IF old_s = new_s THEN NoChanges ELSE CompareStripped(old_s, new_s)
          : old_s \in {strip(old_config)}, new_s \in {strip(new_config)}})

\* has_changes(diff_result), line 152.
has_changes(result) == result.has_changes

\* ------------------------------------------- specification of the diff engine
\* The lines the compared texts are made of: two settings, two clock lines
\* and two time stamp comments.
LineAlphabet ==
    {<<"i","p"," ","1">>, <<"i","p"," ","2">>,
     <<"c","l","o","c","k"," ","1">>, <<"c","l","o","c","k"," ","2">>,
     <<"!","T","i","m","e",":"," ","1">>, <<"!","T","i","m","e",":"," ","2">>}

LineLists == UNION {[1..n -> LineAlphabet] : n \in 1..MaxLines}

\* The text of a list of lines: the lines with a line break between them.
RECURSIVE TextOf(_)
TextOf(lines) ==
    IF Len(lines) = 0 THEN <<>>
    ELSE IF Len(lines) = 1 THEN lines[1]
    ELSE lines[1] \o <<"\n">> \o TextOf(Tail(lines))

\* The line lists that are `lines` with at most one line replaced.
OneLineReplaced(lines) ==
    {lines} \cup {[lines EXCEPT ![i] = l] : i \in 1..Len(lines), l \in LineAlphabet}

\* A caller has two texts to compare.
DiffInit ==
    /\ \E lines \in LineLists : \E other \in OneLineReplaced(lines) :
          /\ diff_old = TextOf(lines)
          /\ diff_new = TextOf(other)
    /\ diff_result = NoChanges
    /\ diff_pc = "call"

\* The call of compare_configs on the two texts.
Compare ==
    /\ diff_pc = "call"
    /\ diff_result' = compare_configs(diff_old, diff_new)
    /\ diff_pc' = "returned"
    /\ UNCHANGED <<diff_old, diff_new>>

InitDiff ==
    DMInit /\ DiffInit /\ HistIdle /\ ConcIdle /\ OrchIdle /\ devices = ConfiguredDevices /\ RegIdle

NextDiff == Compare /\ UNCHANGED <<dmVars, orchVars, devices, histVars, concVars, regVars>>

SpecDiff == InitDiff /\ [][NextDiff]_vars

\* ---------------------------- specification of the diff engine, other lines
\* Lines of a second kind: a setting, two software version lines, a blank
\* line and a comment.
ReleaseAlphabet ==
    {<<"i","p"," ","1">>,
     <<"v","e","r","s","i","o","n"," ","1">>, <<"v","e","r","s","i","o","n"," ","2">>,
     <<>>,
     <<"!"," ","n","o","t","e">>}

ReleaseLists == UNION {[1..n -> ReleaseAlphabet] : n \in 1..MaxLines}

\* A caller has two texts to compare: the second is the first with one line
\* replaced, or the same text.
ReleaseInit ==
    /\ \E lines \in ReleaseLists : \E i \in 1..Len(lines), l \in ReleaseAlphabet :
          /\ diff_old = TextOf(lines)
          /\ diff_new = TextOf([lines EXCEPT ![i] = l])
    /\ diff_result = NoChanges
    /\ diff_pc = "call"

InitRelease ==
    DMInit /\ ReleaseInit /\ HistIdle /\ ConcIdle /\ OrchIdle /\ devices = ConfiguredDevices /\ RegIdle

SpecRelease == InitRelease /\ [][NextDiff]_vars

\* ================================================ backup store, orchestrator
\* src/backup_manager.py, src/scheduler.py, src/email_notifier.py and the
\* backup request of src/app.py.  The clock counts ticks; a backup file is
\* named by the second it was written in.

\* ---------------------------------------------------------------- bounds
\* The clock stops at MaxTime ticks.
MaxTime == 2

\* Clock ticks in one second, the resolution of a backup file name.
Second == 2

\* self.retention_days (backup_manager.py line 25), in clock ticks.
retention_days == 1

\* Running configurations a device may show.
Configs == {<<"i","p"," ","1">>, <<"i","p"," ","2">>}

\* `not x` for x a text or None.
Falsy(x) == x = None \/ x = <<>>

\* datetime.now().strftime('%Y%m%d_%H%M%S'): the clock cut to whole seconds.
Timestamp(t) == t - (t % Second)

\* open(backup_file, 'w') and write: the file of that name is created or
\* overwritten.
WriteFile(files, key, content) ==
    [k \in DOMAIN files \cup {key} |-> IF k = key THEN content ELSE files[k]]

\* open(backup_file, 'w') alone (backup_manager.py line 63): the file of that
\* name is created empty, or cut to nothing if it exists.
OpenFile(files, key) == WriteFile(files, key, <<>>)

\* os.remove of each of the named files.
RemoveFiles(files, keys) == [k \in DOMAIN files \ keys |-> files[k]]

\* Variant of SortsBefore: the history is sorted oldest first.
SortsBefore_Ascending(x, y) == x < y

\* history.sort(key=lambda x: x['timestamp'], reverse=True), line 171: the
\* entry with time stamp x goes before the entry with time stamp y.
SortsBefore(x, y) == x > y

\* The sort of line 171: entries no SortsBefore tells apart keep the order
\* they were appended in.
RECURSIVE Insert(_, _)
Insert(entry, sorted) ==
    IF sorted = <<>> THEN <<entry>>
    ELSE IF SortsBefore(entry, Head(sorted)) THEN <<entry>> \o sorted
    ELSE <<Head(sorted)>> \o Insert(entry, Tail(sorted))

RECURSIVE sort(_)
sort(history) ==
    IF history = <<>> THEN <<>>
    ELSE Insert(history[Len(history)], sort(SubSeq(history, 1, Len(history) - 1)))

\* get_backup_history, lines 83-176.  `listing` is the device directory as
\* os.listdir returns it, every file named by the second it was written in;
\* `listdir` tells whether os.listdir works; `unreadable` are the files that
\* os.path.exists or os.stat fails on.  The result lists the time stamps of
\* the entries.
get_backup_history(listing, listdir, unreadable) ==
    IF listdir = "error" THEN <<>>
    ELSE sort(SelectSeq(listing, LAMBDA file : file \notin unreadable))

\* get_latest_backup, lines 188-191: the first entry of the history; None
\* without history.
get_latest_backup(history) == IF history = <<>> THEN NoKey ELSE history[1]

\* os.listdir of a device directory of the store, in some order.
RECURSIVE Listdir(_)
Listdir(files) ==
    IF DOMAIN files = {} THEN <<>>
    ELSE LET file == CHOOSE k \in DOMAIN files : TRUE
         IN <<file>> \o Listdir(RemoveFiles(files, {file}))

\* get_backup_content: the text of the file, None if it does not exist.
get_backup_content(files, key) ==
    IF key \in DOMAIN files THEN files[key] ELSE None

\* Variant of Expired: a file as old as the cutoff is removed too.
Expired_Inclusive(file_timestamp, cutoff_date) == file_timestamp <= cutoff_date

\* cleanup_old_backups, line 270: the file is older than the cutoff.
Expired(file_timestamp, cutoff_date) == file_timestamp < cutoff_date

JobIdle == job.pc \in {"idle", "done"}

\* The per-call part of the log, at the start of a _backup_device call.
LogCall(d) ==
    [olog EXCEPT !.dev = d, !.before = store[d], !.captured = "none",
                 !.stored = NoKey, !.compared = FALSE, !.prior = None,
                 !.alerts = 0, !.email_result = TRUE,
                 !.outcome = "running", !.counted = "none",
                 !.ran = @ \cup {d}, !.steps = <<>>]

\* ------------------------------------------------------ backup_all_devices
\* The scheduler, or the trigger-backup request, calls backup_all_devices()
\* (scheduler.py lines 77-91).
CallBackupAll ==
    /\ JobIdle
    /\ Idle
    /\ job' = [NoJob EXCEPT !.op = "backup_all_devices",
                            !.pc = IF devices = {} THEN "done" ELSE "loop",
                            !.devices = devices, !.todo = devices]
    /\ olog' = NoLog
    /\ UNCHANGED <<store, now>>

\* Lines 93-96 and 122-125: the loop takes the next device and
\* _backup_device calls get_config, which calls execute_command.
BackupDeviceStart(d) ==
    /\ job.pc = "loop"
    /\ d \in job.todo
    /\ CallExecute(d, TRUE)
    /\ job' = [job EXCEPT !.pc = "get_config", !.dev = d, !.todo = @ \ {d},
                          !.config_content = None, !.latest_backup = NoKey,
                          !.backup_file = NoKey]
    /\ olog' = LogCall(d)
    /\ UNCHANGED <<store, now>>

\* How backup_all_devices counts a _backup_device call that returned or
\* raised (lines 97-101).
Counted(how) == IF how = "raise" THEN "fail" ELSE "success"

\* _backup_device ends (return, or the re-raise of line 179) and the loop
\* of backup_all_devices counts it.
EndBackupDevice(j, l, how, outcome) ==
    /\ job' = [j EXCEPT !.pc = "loop",
                        !.success_count = IF Counted(how) = "success" THEN @ + 1 ELSE @,
                        !.fail_count = IF Counted(how) = "fail" THEN @ + 1 ELSE @]
    /\ olog' = [l EXCEPT !.outcome = outcome, !.counted = Counted(how),
                         !.outcomes[j.dev] = outcome]

\* Variant of CaptureFailed: the capture is never taken as failed.
CaptureFailed_Never(config_content) == FALSE

\* `if not config_content` (scheduler.py line 126, app.py line 252).
CaptureFailed(config_content) == Falsy(config_content)

\* get_config returns what execute_command returned (device_manager.py
\* lines 244-249); `text` is the running configuration the device showed.
\* Then scheduler.py lines 126-130 or app.py lines 252-259.
GetConfigReturns(text) ==
    /\ job.pc = "get_config"
    /\ pc = "done"
    /\ LET config_content == CASE frame.result = "text" -> text
                               [] frame.result = "empty" -> <<>>
                               [] OTHER -> None
           j == [job EXCEPT !.config_content = config_content]
           l == [olog EXCEPT !.captured = frame.result,
                             !.steps = Append(@, "capture")]
       IN IF job.op = "backup_all_devices"
          THEN IF CaptureFailed(config_content)
               THEN EndBackupDevice(j, l, "return",
                        IF config_content = None THEN "capture_failed" ELSE "capture_empty")
               ELSE /\ job' = [j EXCEPT !.pc = "store"]
                    /\ olog' = l
          ELSE /\ job' = [j EXCEPT !.pc = IF CaptureFailed(config_content)
                                          THEN "done" ELSE "api_store"]
               /\ olog' = [l EXCEPT !.outcome = IF CaptureFailed(config_content)
                                                THEN "capture_failed" ELSE @]
    /\ pc' = "idle"
    /\ frame' = NoFrame
    /\ obs' = NoObs
    /\ UNCHANGED <<connections, status, owner, dead, store, now>>

\* _backup_device, lines 132-147: look up the latest backup, then write the
\* new one.  `listing` is the outcome of reading the directory.  `writing`
\* is the outcome of backup_config: the file is written; or the directory
\* or the file cannot be opened; or the file is opened and the write fails,
\* which leaves the opened file behind.  backup_config returns None for
\* both failures.
BackupStore(listing, writing) ==
    /\ job.pc = "store"
    /\ LET d == job.dev
           latest_backup ==
               get_latest_backup(get_backup_history(Listdir(store[d]), listing, {}))
           backup_file == Timestamp(now)
           j == [job EXCEPT !.latest_backup = latest_backup]
           l == [olog EXCEPT !.steps = @ \o <<"lookup", "store">>]
       IN IF writing = "ok"
          THEN /\ store' = [store EXCEPT ![d] = WriteFile(@, backup_file, job.config_content)]
               /\ job' = [j EXCEPT !.backup_file = backup_file, !.pc = "diff"]
               /\ olog' = [l EXCEPT !.stored = backup_file, !.recorded = @ \cup {d}]
          ELSE /\ EndBackupDevice(j, l, "return", "store_failed")
               /\ store' = IF writing = "write_error"
                           THEN [store EXCEPT ![d] = OpenFile(@, backup_file)]
                           ELSE store
    /\ UNCHANGED <<now, dmVars>>

\* Variant of AfterAlert: an alert that was not sent fails the backup.
AfterAlert_Raise(email_result) == IF email_result THEN "return" ELSE "raise"

\* _backup_device, lines 165-169: the result of send_alert is logged.
AfterAlert(email_result) == "return"

\* _backup_device, lines 149-179: read the earlier backup, compare, alert.
\* `reading` is the outcome of reading the earlier backup, `email_result`
\* what send_alert returns if it is called.
BackupDiff(reading, email_result) ==
    /\ job.pc = "diff"
    /\ LET d == job.dev
           old_config == IF reading = "ok"
                         THEN get_backup_content(store[d], job.latest_backup)
                         ELSE None
       IN IF job.latest_backup = NoKey
          THEN EndBackupDevice(job, olog, "return", "success")
          ELSE IF reading = "raise"
          THEN EndBackupDevice(job, olog, "raise", "raised")
          ELSE IF Falsy(old_config)
          THEN EndBackupDevice(job, olog, "return", "success")
          ELSE IF has_changes(compare_configs(old_config, job.config_content))
          THEN EndBackupDevice(job,
                   [olog EXCEPT !.compared = TRUE, !.prior = old_config,
                                !.alerts = @ + 1, !.email_result = email_result,
                                !.steps = @ \o <<"diff", "alert">>],
                   AfterAlert(email_result),
                   IF AfterAlert(email_result) = "return" THEN "success" ELSE "raised")
          ELSE EndBackupDevice(job,
                   [olog EXCEPT !.compared = TRUE, !.prior = old_config,
                                !.steps = Append(@, "diff")],
                   "return", "success")
    /\ UNCHANGED <<store, now, dmVars>>

\* --------------------------------------------------- cleanup_old_backups
\* Variant of LoopExhausted: the statements after the loop may run before
\* the loop has taken every device.
LoopExhausted_Early(todo) == TRUE

\* backup_all_devices, line 93: the for loop has taken every device.
LoopExhausted(todo) == todo = {}

\* backup_all_devices, lines 103-108, and cleanup_old_backups, lines
\* 253-254: after the loop, list the backup directory and fix the cutoff.
\* The local variables of the last _backup_device call are gone, and the
\* log keeps of the calls only what the run as a whole did.
CleanupStart(listing) ==
    /\ job.pc = "loop"
    /\ LoopExhausted(job.todo)
    /\ LET j == [job EXCEPT !.dev = NoJob.dev, !.config_content = None,
                            !.latest_backup = NoKey, !.backup_file = NoKey]
           l == [NoLog EXCEPT !.ran = olog.ran, !.recorded = olog.recorded,
                              !.outcomes = olog.outcomes, !.pruneBefore = store]
       IN IF listing = "ok"
          THEN /\ job' = [j EXCEPT !.pc = "cleanup",
                                   !.todo = {d \in Names : DOMAIN store[d] # {}},
                                   !.cutoff_date = now - retention_days]
               /\ olog' = [l EXCEPT !.prune = "running"]
          ELSE /\ job' = [j EXCEPT !.pc = "done"]
               /\ olog' = [l EXCEPT !.prune = "raised"]
    /\ UNCHANGED <<store, now, dmVars>>

\* cleanup_old_backups, lines 256-278: one pass of the loop over the device
\* directories.  `outcome`: every file operation works, or listing this
\* directory fails, or removing one expired file fails after some others
\* were removed.
CleanupDevice(dev, outcome) ==
    /\ job.pc = "cleanup"
    /\ dev \in job.todo
    /\ LET expired == {k \in DOMAIN store[dev] : Expired(k, job.cutoff_date)}
       IN CASE outcome = "ok" ->
                 /\ store' = [store EXCEPT ![dev] = RemoveFiles(@, expired)]
                 /\ job' = [job EXCEPT !.todo = @ \ {dev}]
                 /\ UNCHANGED olog
            [] outcome = "listdir_error" ->
                 /\ job' = [job EXCEPT !.pc = "done", !.todo = {}]
                 /\ olog' = [olog EXCEPT !.prune = "raised", !.pruneFailed = dev]
                 /\ UNCHANGED store
            [] outcome = "remove_error" ->
                 /\ \E failing \in expired : \E removed \in SUBSET (expired \ {failing}) :
                        store' = [store EXCEPT ![dev] = RemoveFiles(@, removed)]
                 /\ job' = [job EXCEPT !.pc = "done", !.todo = {}]
                 /\ olog' = [olog EXCEPT !.prune = "raised", !.pruneFailed = dev]
    /\ UNCHANGED <<now, dmVars>>

\* cleanup_old_backups returns; backup_all_devices, lines 109-113.
CleanupReturns ==
    /\ job.pc = "cleanup"
    /\ job.todo = {}
    /\ job' = [job EXCEPT !.pc = "done"]
    /\ olog' = [olog EXCEPT !.prune = "returned"]
    /\ UNCHANGED <<store, now, dmVars>>

\* ------------------------------------------------ backup request (app.py)
\* backup_device of app.py, lines 235-250: a request to back up one device.
ApiBackup(d) ==
    /\ JobIdle
    /\ CallExecute(d, TRUE)
    /\ job' = [NoJob EXCEPT !.op = "backup_device", !.pc = "get_config", !.dev = d]
    /\ olog' = [NoLog EXCEPT !.dev = d, !.before = store[d], !.outcome = "running",
                             !.ran = {d}]
    /\ UNCHANGED <<store, now>>

\* backup_device of app.py, lines 261-283: write the backup and answer.
ApiStore(writing) ==
    /\ job.pc = "api_store"
    /\ LET d == job.dev
           backup_file == Timestamp(now)
       IN IF writing = "ok"
          THEN /\ store' = [store EXCEPT ![d] = WriteFile(@, backup_file, job.config_content)]
               /\ job' = [job EXCEPT !.backup_file = backup_file, !.pc = "done"]
               /\ olog' = [olog EXCEPT !.stored = backup_file, !.recorded = @ \cup {d},
                                       !.outcome = "success",
                                       !.steps = Append(@, "store")]
          ELSE /\ job' = [job EXCEPT !.pc = "done"]
               /\ olog' = [olog EXCEPT !.outcome = "store_failed",
                                       !.steps = Append(@, "store")]
               /\ store' = IF writing = "write_error"
                           THEN [store EXCEPT ![d] = OpenFile(@, backup_file)]
                           ELSE store
    /\ UNCHANGED <<now, dmVars>>

\* ------------------------------------------- get_latest_backup on its own
\* The most files a device directory holds.
MaxFiles == 3

\* The seconds the files of a directory were written in.
FileStamps == 1..MaxFiles

\* The ways os.listdir may list a directory of at most MaxFiles files.
Listings ==
    UNION {{l \in [1..n -> FileStamps] : \A i, j \in 1..n : l[i] = l[j] => i = j}
           : n \in 0..MaxFiles}

HistInit ==
    /\ hist_listing \in Listings
    /\ hist_listdir \in {"ok", "error"}
    /\ hist_unreadable \in SUBSET {hist_listing[i] : i \in 1..Len(hist_listing)}
    /\ hist_history = <<>>
    /\ hist_latest = NoKey
    /\ hist_pc = "call"

\* get_latest_backup(device_name), lines 188-191.
LatestBackup ==
    /\ hist_pc = "call"
    /\ hist_history' = get_backup_history(hist_listing, hist_listdir, hist_unreadable)
    /\ hist_latest' = get_latest_backup(hist_history')
    /\ hist_pc' = "returned"
    /\ UNCHANGED <<hist_listing, hist_listdir, hist_unreadable>>

InitHist ==
    DMInit /\ DiffIdle /\ HistInit /\ ConcIdle /\ OrchIdle /\ devices = ConfiguredDevices /\ RegIdle

NextHist == LatestBackup /\ UNCHANGED <<dmVars, diffVars, orchVars, devices, concVars, regVars>>

SpecHist == InitHist /\ [][NextHist]_vars

\* ------------------------------------------------ delete request (app.py)
\* delete_backup of app.py, lines 370-400, and of backup_manager.py, lines
\* 229-242: a request to delete one backup file of a device.  `removing`
\* is the outcome of os.remove.
DeleteBackup(d, backup_file, removing) ==
    /\ JobIdle
    /\ Idle
    /\ backup_file \in DOMAIN store[d]
    /\ store' = IF removing = "ok"
                THEN [store EXCEPT ![d] = RemoveFiles(@, {backup_file})]
                ELSE store
    /\ job' = [NoJob EXCEPT !.op = "delete_backup", !.pc = "done", !.dev = d]
    /\ olog' = [NoLog EXCEPT !.dev = d, !.before = store[d],
                             !.outcome = IF removing = "ok" THEN "success" ELSE "delete_failed"]
    /\ UNCHANGED <<now, dmVars>>

\* Time passes.  The clock is read when a backup file is named and when
\* the cutoff is fixed; execute_command does not read it, so the ticks
\* during a command are taken before or after it.
Tick ==
    /\ now < MaxTime
    /\ Idle
    /\ now' = now + 1
    /\ UNCHANGED <<store, job, olog, dmVars>>

\* ----------------------------------------- specification of the orchestrator
\* What the transport does during a backup job: a connect works or is
\* rejected; a command gives text, gives nothing, or fails.
JobAttemptOutcomes == {"ok", "auth"}

\* What backup_config meets (backup_manager.py lines 58-81).
WriteOutcomes == {"ok", "open_error", "write_error"}

JobSendOutcomes == {"text", "empty", "InvalidInput"}

\* The configuration file lists r1 and r2, or no device at all.
Registries == {{}, ConfiguredDevices}

InitOrch == DMInit /\ RestIdle /\ OrchIdle /\ devices \in Registries /\ RegIdle

NextOrch ==
    \/ CallBackupAll /\ UNCHANGED <<dmVars, diffVars, devices, histVars, concVars, regVars>>
    \/ (\E d \in Names : BackupDeviceStart(d)) /\ UNCHANGED <<diffVars, devices, histVars, concVars, regVars>>
    \/ (\E text \in Configs : GetConfigReturns(text)) /\ UNCHANGED <<diffVars, devices, histVars, concVars, regVars>>
    \/ (\E l \in {"ok", "error"}, w \in WriteOutcomes : BackupStore(l, w)) /\ UNCHANGED <<diffVars, devices, histVars, concVars, regVars>>
    \/ (\E r \in {"ok", "error", "raise"}, e \in BOOLEAN : BackupDiff(r, e))
          /\ UNCHANGED <<diffVars, devices, histVars, concVars, regVars>>
    \/ (\E l \in {"ok", "error"} : CleanupStart(l)) /\ UNCHANGED <<diffVars, devices, histVars, concVars, regVars>>
    \/ (\E d \in Names, o \in {"ok", "listdir_error", "remove_error"} :
           CleanupDevice(d, o)) /\ UNCHANGED <<diffVars, devices, histVars, concVars, regVars>>
    \/ CleanupReturns /\ UNCHANGED <<diffVars, devices, histVars, concVars, regVars>>
    \/ (\E d \in Names : ApiBackup(d)) /\ UNCHANGED <<diffVars, devices, histVars, concVars, regVars>>
    \/ (\E w \in WriteOutcomes : ApiStore(w)) /\ UNCHANGED <<diffVars, devices, histVars, concVars, regVars>>
    \/ (\E d \in Names, k \in 0..MaxTime, r \in {"ok", "error"} : DeleteBackup(d, k, r))
          /\ UNCHANGED <<diffVars, devices, histVars, concVars, regVars>>
    \/ Tick /\ UNCHANGED <<diffVars, devices, histVars, concVars, regVars>>
    \/ ConnectCheckCache /\ UNCHANGED <<diffVars, orchVars, devices, histVars, concVars, regVars>>
    \/ (\E o \in JobAttemptOutcomes : ConnectAttempt(o)) /\ UNCHANGED <<diffVars, orchVars, devices, histVars, concVars, regVars>>
    \/ ExecStart /\ UNCHANGED <<diffVars, orchVars, devices, histVars, concVars, regVars>>
    \/ ExecAfterConnect /\ UNCHANGED <<diffVars, orchVars, devices, histVars, concVars, regVars>>
    \/ (\E o \in JobSendOutcomes : ExecSend(o)) /\ UNCHANGED <<diffVars, orchVars, devices, histVars, concVars, regVars>>

SpecOrch == InitOrch /\ [][NextOrch]_vars

\* =========================================================== concurrent callers
\* The process runs backup_all_devices in a thread of its own (the
\* BackgroundScheduler of scheduler.py line 33, or the thread trigger_backup
\* starts, app.py lines 611-619) while the web server handles requests in
\* other threads.  No method of DeviceManager or BackupManager takes a lock:
\* the threads share self.connections, the sessions and the backup
\* directories, and a step of one thread may come between any two steps of
\* another.  A step is one access to the shared state, or the start or end
\* of one command on a session.  The retry loop of connect() is one step
\* here: it gives a session or None.

\* The methods a thread may run.
ThreadOps(t) ==
    IF t = "job" THEN {"backup_all_devices"} ELSE {"backup_device", "delete_backup"}

\* The thread is between the start and the end of a send_command call on
\* its session: the probe of _check_connection (line 41) or the command of
\* execute_command (line 180).
InFlight(t) == threads[t].pc \in {"probe", "send"}

\* A method is called in thread t (scheduler.py lines 83-91; app.py lines
\* 235-250 and 370-382).
T_Call(t, op, d, backup_file) ==
    /\ threads[t].pc = "idle"
    /\ op \in ThreadOps(t)
    /\ threads' = [threads EXCEPT ![t] =
          CASE op = "backup_all_devices" ->
                 [NoThread EXCEPT !.op = op, !.todo = devices,
                                  !.pc = IF devices = {} THEN "idle" ELSE "loop"]
            [] op = "backup_device" ->
                 [NoThread EXCEPT !.op = op, !.pc = "exec", !.dev = d]
            [] op = "delete_backup" ->
                 [NoThread EXCEPT !.op = op, !.pc = "delete", !.dev = d,
                                  !.backup_file = backup_file]]
    /\ UNCHANGED <<connections, status, owner, store>>

\* backup_all_devices, lines 93-96: the loop calls _backup_device for the
\* next device.
T_LoopNext(t, d) ==
    /\ threads[t].pc = "loop"
    /\ d \in threads[t].todo
    /\ threads' = [threads EXCEPT ![t] =
          [@ EXCEPT !.pc = "exec", !.dev = d, !.todo = @ \ {d}, !.connection = NoConn,
                    !.attempt = 0, !.config_content = None, !.backup_file = NoKey]]
    /\ UNCHANGED <<connections, status, owner, store>>

\* A thread whose capture or store has ended: back in the loop of
\* backup_all_devices, or out of the request.
AfterPipeline(th) ==
    IF th.op = "backup_all_devices"
    THEN [NoThread EXCEPT !.op = th.op, !.pc = "loop", !.todo = th.todo]
    ELSE NoThread

\* execute_command, lines 153-156: read the cache; a cached session is
\* probed, which sends a command on it.
T_ExecGet(t) ==
    /\ threads[t].pc = "exec"
    /\ LET connection == connections[threads[t].dev]
       IN threads' = [threads EXCEPT ![t] =
             [@ EXCEPT !.connection = connection, !.attempt = 1,
                       !.pc = IF connection = NoConn THEN "connect" ELSE "probe"]]
    /\ UNCHANGED <<connections, status, owner, store>>

\* execute_command, lines 156-172: the probe returns.  A session that was
\* closed meanwhile fails it: the thread disconnects the session, deletes
\* whatever the cache holds for the device and connects.
T_ProbeEnd(t) ==
    /\ threads[t].pc = "probe"
    /\ LET th == threads[t]
       IN IF status[th.connection] = "open"
          THEN /\ threads' = [threads EXCEPT ![t] = [@ EXCEPT !.pc = "send"]]
               /\ UNCHANGED <<connections, status>>
          ELSE /\ threads' = [threads EXCEPT ![t] = [@ EXCEPT !.pc = "connect"]]
               /\ connections' = [connections EXCEPT ![th.dev] = NoConn]
               /\ UNCHANGED status
    /\ UNCHANGED <<owner, store>>

\* connect(), lines 58-76: the registry and the cache are looked up again.
T_ConnectCheck(t) ==
    /\ threads[t].pc = "connect"
    /\ LET th == threads[t]
           c == connections[th.dev]
       IN IF th.dev \notin devices
          THEN /\ threads' = [threads EXCEPT ![t] = AfterPipeline(th)]
               /\ UNCHANGED <<connections, status>>
          ELSE IF c # NoConn /\ status[c] = "open"
          THEN /\ threads' = [threads EXCEPT ![t] =
                     [@ EXCEPT !.connection = c, !.pc = "send"]]
               /\ UNCHANGED <<connections, status>>
          ELSE IF c # NoConn
          THEN /\ threads' = [threads EXCEPT ![t] = [@ EXCEPT !.pc = "dialing"]]
               /\ connections' = [connections EXCEPT ![th.dev] = NoConn]
               /\ UNCHANGED status
          ELSE /\ threads' = [threads EXCEPT ![t] = [@ EXCEPT !.pc = "dialing"]]
               /\ UNCHANGED <<connections, status>>
    /\ UNCHANGED <<owner, store>>

\* connect(), lines 83-139: the loop opens a session, probes it and writes
\* it to the cache (line 97), or gives up and returns None.
T_Dial(t, outcome) ==
    /\ threads[t].pc = "dialing"
    /\ LET th == threads[t]
           s == NextSid
       IN IF outcome = "ok" /\ s # 0
          THEN /\ status' = [status EXCEPT ![s] = "open"]
               /\ owner' = [owner EXCEPT ![s] = th.dev]
               /\ connections' = [connections EXCEPT ![th.dev] = s]
               /\ threads' = [threads EXCEPT ![t] =
                     [@ EXCEPT !.connection = s, !.pc = "send"]]
          ELSE /\ threads' = [threads EXCEPT ![t] = AfterPipeline(th)]
               /\ UNCHANGED <<connections, status, owner>>
    /\ UNCHANGED store

\* execute_command, lines 176-226: send_command returns `text`, or raises
\* a connection error.  After the error the thread disconnects and deletes
\* whatever the cache holds for the device (lines 197-202, 220-225), then
\* connects again if this was the first attempt.
T_SendEnd(t, out, text) ==
    /\ threads[t].pc = "send"
    /\ LET th == threads[t]
           c == connections[th.dev]
       IN IF out = "text"
          THEN /\ threads' = [threads EXCEPT ![t] =
                     [@ EXCEPT !.config_content = text, !.pc = "store"]]
               /\ UNCHANGED <<connections, status>>
          ELSE /\ status' = IF c # NoConn THEN [status EXCEPT ![c] = "closed"] ELSE status
               /\ connections' = [connections EXCEPT ![th.dev] = NoConn]
               /\ threads' = [threads EXCEPT ![t] =
                     IF th.attempt < MaxAttempts(TRUE)
                     THEN [@ EXCEPT !.attempt = @ + 1, !.pc = "connect"]
                     ELSE AfterPipeline(th)]
    /\ UNCHANGED <<owner, store>>

\* backup_config, lines 59-64: name the file by the second and open it.
T_Open(t, opening) ==
    /\ threads[t].pc = "store"
    /\ LET th == threads[t]
       IN IF opening = "ok"
          THEN /\ store' = [store EXCEPT ![th.dev] = OpenFile(@, Timestamp(now))]
               /\ threads' = [threads EXCEPT ![t] =
                     [@ EXCEPT !.backup_file = Timestamp(now), !.pc = "writing"]]
          ELSE /\ threads' = [threads EXCEPT ![t] = AfterPipeline(th)]
               /\ UNCHANGED store
    /\ UNCHANGED <<connections, status, owner>>

\* backup_config, lines 65-74: write and close the file.  The text goes to
\* the file that was opened; if that was removed meanwhile, no file of the
\* name exists afterwards.  The rest of _backup_device (scheduler.py lines
\* 149-175) and of the backup request only reads the store.
T_Write(t) ==
    /\ threads[t].pc = "writing"
    /\ LET th == threads[t]
       IN /\ store' = IF th.backup_file \in DOMAIN store[th.dev]
                      THEN [store EXCEPT ![th.dev] =
                               WriteFile(@, th.backup_file, th.config_content)]
                      ELSE store
          /\ threads' = [threads EXCEPT ![t] = AfterPipeline(th)]
    /\ UNCHANGED <<connections, status, owner>>

\* backup_all_devices, lines 103-108, and cleanup_old_backups, lines
\* 253-254: after the loop, list the backup directory.
T_CleanupStart(t) ==
    /\ threads[t].pc = "loop"
    /\ LoopExhausted(threads[t].todo)
    /\ threads' = [threads EXCEPT ![t] =
          [@ EXCEPT !.pc = "cleanup", !.todo = {d \in Names : DOMAIN store[d] # {}}]]
    /\ UNCHANGED <<connections, status, owner, store>>

\* cleanup_old_backups, lines 256-261: list the directory of the next
\* device; without a next device the method returns.
T_PruneList(t) ==
    /\ threads[t].pc = "cleanup"
    /\ IF threads[t].todo = {}
       THEN threads' = [threads EXCEPT ![t] = NoThread]
       ELSE \E d \in threads[t].todo :
               threads' = [threads EXCEPT ![t] =
                  [@ EXCEPT !.pc = "pruning", !.dev = d, !.todo = @ \ {d},
                            !.files = DOMAIN store[d]]]
    /\ UNCHANGED <<connections, status, owner, store>>

\* cleanup_old_backups, lines 263-278: remove the listed files that are
\* older than the cutoff.  Removing a file that is no longer there raises,
\* which ends cleanup_old_backups (caught at scheduler.py line 110).
T_PruneRemove(t) ==
    /\ threads[t].pc = "pruning"
    /\ LET th == threads[t]
           expired == {k \in th.files : Expired(k, now - retention_days)}
       IN IF expired \subseteq DOMAIN store[th.dev]
          THEN /\ store' = [store EXCEPT ![th.dev] = RemoveFiles(@, expired)]
               /\ threads' = [threads EXCEPT ![t] = [@ EXCEPT !.pc = "cleanup", !.files = {}]]
          ELSE /\ store' = [store EXCEPT ![th.dev] = RemoveFiles(@, expired)]
               /\ threads' = [threads EXCEPT ![t] = NoThread]
    /\ UNCHANGED <<connections, status, owner>>

\* delete_backup, lines 229-234: does the file exist?
T_DeleteCheck(t) ==
    /\ threads[t].pc = "delete"
    /\ threads' = [threads EXCEPT ![t] =
          IF @.backup_file \in DOMAIN store[@.dev]
          THEN [@ EXCEPT !.pc = "removing"] ELSE NoThread]
    /\ UNCHANGED <<connections, status, owner, store>>

\* delete_backup, lines 236-242: os.remove, whose exception is caught.
T_DeleteRemove(t) ==
    /\ threads[t].pc = "removing"
    /\ store' = [store EXCEPT ![threads[t].dev] = RemoveFiles(@, {threads[t].backup_file})]
    /\ threads' = [threads EXCEPT ![t] = NoThread]
    /\ UNCHANGED <<connections, status, owner>>

\* The configuration file lists one device.
ConcRegistry == {"r1"}

\* The process starts with the backup directory as earlier runs left it:
\* empty, or with one backup of the device written a second ago.
ConcStores ==
    {[d \in Names |-> <<>>],
     [d \in Names |-> IF d \in ConcRegistry
                      THEN WriteFile(<<>>, 0, <<"i","p"," ","1">>) ELSE <<>>]}

InitConc ==
    /\ DMInit /\ DiffIdle /\ HistIdle /\ ConcIdle
    /\ devices = ConcRegistry
    /\ store \in ConcStores
    /\ now = Second
    /\ job = NoJob
    /\ olog = NoLog
    /\ RegIdle

concFrame == <<dead, pc, frame, obs, diffVars, histVars, devices, now, job, olog, regVars>>

NextConc ==
    \/ (\E t \in Threads, op \in {"backup_all_devices", "backup_device", "delete_backup"},
            d \in Names, k \in {0, Second} : T_Call(t, op, d, k)) /\ UNCHANGED concFrame
    \/ (\E t \in Threads, d \in Names : T_LoopNext(t, d)) /\ UNCHANGED concFrame
    \/ (\E t \in Threads : T_ExecGet(t)) /\ UNCHANGED concFrame
    \/ (\E t \in Threads : T_ProbeEnd(t)) /\ UNCHANGED concFrame
    \/ (\E t \in Threads : T_ConnectCheck(t)) /\ UNCHANGED concFrame
    \/ (\E t \in Threads, o \in {"ok", "fail"} : T_Dial(t, o)) /\ UNCHANGED concFrame
    \/ (\E t \in Threads, o \in {"text", "closed"}, text \in Configs : T_SendEnd(t, o, text))
          /\ UNCHANGED concFrame
    \/ (\E t \in Threads, o \in {"ok", "open_error"} : T_Open(t, o)) /\ UNCHANGED concFrame
    \/ (\E t \in Threads : T_Write(t)) /\ UNCHANGED concFrame
    \/ (\E t \in Threads : T_CleanupStart(t)) /\ UNCHANGED concFrame
    \/ (\E t \in Threads : T_PruneList(t)) /\ UNCHANGED concFrame
    \/ (\E t \in Threads : T_PruneRemove(t)) /\ UNCHANGED concFrame
    \/ (\E t \in Threads : T_DeleteCheck(t)) /\ UNCHANGED concFrame
    \/ (\E t \in Threads : T_DeleteRemove(t)) /\ UNCHANGED concFrame

SpecConc == InitConc /\ [][NextConc]_vars

\* ================================================== device registry
\* src/config.py keeps the devices in the section 'devices' of a
\* configparser.ConfigParser: option name -> "ip,username,password,device_type".
\* Names and values are texts, sequences of characters.

\* ConfigParser.optionxform: option names are kept in lower case.
optionxform(optionstr) == lower(optionstr)

\* value.replace('%%', '')
RECURSIVE StripPairs(_)
StripPairs(s) ==
    IF s = <<>> THEN <<>>
    ELSE IF Len(s) >= 2 /\ s[1] = "%" /\ s[2] = "%" THEN StripPairs(SubSeq(s, 3, Len(s)))
    ELSE <<Head(s)>> \o StripPairs(Tail(s))

\* Where a match of _KEYCRE, %\(([^)]+)\)s, at the head of s ends; 0 when
\* there is none.
KeyEnd(s) ==
    IF Len(s) >= 5 /\ s[1] = "%" /\ s[2] = "("
       /\ \E j \in 4..(Len(s) - 1) :
             /\ s[j] = ")" /\ s[j + 1] = "s"
             /\ \A i \in 3..(j - 1) : s[i] # ")"
    THEN 1 + CHOOSE j \in 4..(Len(s) - 1) :
             /\ s[j] = ")" /\ s[j + 1] = "s"
             /\ \A i \in 3..(j - 1) : s[i] # ")"
    ELSE 0

\* _KEYCRE.sub('', s)
RECURSIVE StripRefs(_)
StripRefs(s) ==
    IF s = <<>> THEN <<>>
    ELSE IF KeyEnd(s) > 0 THEN StripRefs(SubSeq(s, KeyEnd(s) + 1, Len(s)))
    ELSE <<Head(s)>> \o StripRefs(Tail(s))

\* BasicInterpolation.before_set(value) returns; FALSE: it raises ValueError.
before_set(value) == \A i \in DOMAIN StripRefs(StripPairs(value)) :
                        StripRefs(StripPairs(value))[i] # "%"

\* An interpolation error raised by a read of a value.
Raised == <<"InterpolationError">>

MAX_INTERPOLATION_DEPTH == 10

\* BasicInterpolation._interpolate_some: the value as a read returns it, or
\* Raised.  map: the options of the section.
RECURSIVE interpolate(_, _, _)
interpolate(rest, map, depth) ==
    IF depth > MAX_INTERPOLATION_DEPTH THEN Raised
    ELSE IF \A i \in DOMAIN rest : rest[i] # "%" THEN rest
    ELSE Only({
        IF Len(r) >= 2 /\ r[2] = "%"
        THEN Only({IF tail = Raised THEN Raised ELSE SubSeq(rest, 1, p - 1) \o <<"%">> \o tail
                   : tail \in {interpolate(SubSeq(r, 3, Len(r)), map, depth)}})
        ELSE IF Len(r) >= 2 /\ r[2] = "(" /\ KeyEnd(r) > 0
        THEN Only({IF var \notin DOMAIN map THEN Raised
                   ELSE Only({IF v = Raised \/ tail = Raised THEN Raised
                              ELSE SubSeq(rest, 1, p - 1) \o v \o tail
                              : v \in {IF \E i \in DOMAIN map[var] : map[var][i] = "%"
                                       THEN interpolate(map[var], map, depth + 1)
                                       ELSE map[var]},
                                tail \in {interpolate(SubSeq(r, KeyEnd(r) + 1, Len(r)),
                                                      map, depth)}})
                   : var \in {optionxform(SubSeq(r, 3, KeyEnd(r) - 2))}})
        ELSE Raised
        : <<p, r>> \in {<<q, SubSeq(rest, q, Len(rest))>> :
                          q \in {CHOOSE q \in DOMAIN rest :
                                    rest[q] = "%" /\ \A j \in 1..(q - 1) : rest[j] # "%"}}})

\* self.config['devices'][name]: the value of an option as a read returns it.
before_get(section, option) == interpolate(section[option], section, 1)

\* str.split(sep) for a separator of one character.
RECURSIVE split(_, _)
split(s, sep) ==
    IF \E i \in DOMAIN s : s[i] = sep
    THEN Only({<<SubSeq(s, 1, i - 1)>> \o split(SubSeq(s, i + 1, Len(s)), sep)
               : i \in {CHOOSE i \in DOMAIN s : s[i] = sep /\ \A j \in 1..(i - 1) : s[j] # sep}})
    ELSE <<s>>

\* Config.get_devices() raises: the read of a value at line 57 raises.
get_devices_raises(section) ==
    \E name \in DOMAIN section : before_get(section, name) = Raised

\* Config.get_devices(), lines 53-66, when it returns: name -> fields.
get_devices(section) ==
    [name \in {n \in DOMAIN section : Len(split(before_get(section, n), ",")) >= 4} |->
        Only({[ip |-> parts[1], username |-> parts[2],
               password |-> parts[3], device_type |-> parts[4]]
              : parts \in {split(before_get(section, name), ",")}})]

\* What a method of Config returns and leaves in the section.
Outcome(success, section) == [success |-> success, section |-> section]

\* Config.add_device(name, ...), lines 96-124.
add_device(section, name, ip, username, password, device_type) ==
    IF optionxform(name) \in DOMAIN section THEN Outcome(FALSE, section)
    ELSE IF ~before_set(ValueOf(ip, username, password, device_type))
    THEN Outcome(FALSE, section)
    ELSE Outcome(TRUE, [k \in DOMAIN section \cup {optionxform(name)} |->
                           IF k = optionxform(name)
                           THEN ValueOf(ip, username, password, device_type)
                           ELSE section[k]])

\* Lines 146-151 of update_device: an empty password stands for the old one.
KeptPassword(section, name, password) ==
    IF password # <<>> THEN password
    ELSE Only({IF old_value = Raised THEN Raised
               ELSE IF Len(split(old_value, ",")) >= 4 THEN split(old_value, ",")[3]
               ELSE password
               : old_value \in {before_get(section, optionxform(name))}})

\* Config.update_device(name, ...), lines 126-160.
update_device(section, name, ip, username, password, device_type) ==
    IF optionxform(name) \notin DOMAIN section THEN Outcome(FALSE, section)
    ELSE Only({IF pw = Raised \/ ~before_set(ValueOf(ip, username, pw, device_type))
               THEN Outcome(FALSE, section)
               ELSE Outcome(TRUE, [section EXCEPT ![optionxform(name)] =
                                      ValueOf(ip, username, pw, device_type)])
               : pw \in {KeptPassword(section, name, password)}})

\* Config.delete_device(name), lines 162-184.
delete_device(section, name) ==
    IF optionxform(name) \notin DOMAIN section THEN Outcome(FALSE, section)
    ELSE Outcome(TRUE, [k \in DOMAIN section \ {optionxform(name)} |-> section[k]])

\* ------------------------------------------ specification of the registry
\* Arguments of the registry calls: names in lower and in upper case, a
\* password with a comma and one with a per cent sign.
RequestNames == {<<"r","1">>, <<"R","1">>, <<"r","9">>}
Hosts == {<<"h","1">>, <<"h","2">>}
Users == {<<"u">>}
Passwords == {<<"p">>, <<"p",",","q">>, <<"p","%","q">>}
DeviceTypes == {<<"i","o","s">>}

\* A caller invokes Config.add_device.
ConfigAdd(name, ip, username, password, device_type) ==
    /\ config' = add_device(config, name, ip, username, password, device_type).section
    /\ reg' = [op |-> "add_device", name |-> name, ip |-> ip, username |-> username,
               password |-> password, device_type |-> device_type,
               success |-> add_device(config, name, ip, username, password,
                                      device_type).success,
               before |-> config]

\* A caller invokes Config.update_device.
ConfigUpdate(name, ip, username, password, device_type) ==
    /\ config' = update_device(config, name, ip, username, password, device_type).section
    /\ reg' = [op |-> "update_device", name |-> name, ip |-> ip, username |-> username,
               password |-> password, device_type |-> device_type,
               success |-> update_device(config, name, ip, username, password,
                                         device_type).success,
               before |-> config]

\* A caller invokes Config.delete_device.
ConfigDelete(name) ==
    /\ config' = delete_device(config, name).section
    /\ reg' = [NoReg EXCEPT !.op = "delete_device", !.name = name,
                            !.success = delete_device(config, name).success,
                            !.before = config]

NextReg ==
    \/ (\E name \in RequestNames, ip \in Hosts, username \in Users,
           password \in Passwords, device_type \in DeviceTypes :
           ConfigAdd(name, ip, username, password, device_type))
          /\ UNCHANGED <<dmVars, diffVars, orchVars, devices, histVars, concVars>>
    \/ (\E name \in RequestNames, ip \in Hosts, username \in Users,
           password \in Passwords \cup {<<>>}, device_type \in DeviceTypes :
           ConfigUpdate(name, ip, username, password, device_type))
          /\ UNCHANGED <<dmVars, diffVars, orchVars, devices, histVars, concVars>>
    \/ (\E name \in RequestNames : ConfigDelete(name))
          /\ UNCHANGED <<dmVars, diffVars, orchVars, devices, histVars, concVars>>

SpecReg == Init /\ [][NextReg]_vars

\* ------------------------------------------------ the device API of app.py
\* device_manager.devices = config.get_devices() (app.py lines 134, 175 and
\* 213): the new registry, or the old one when get_devices raises.
Reloaded(section, devs) ==
    IF get_devices_raises(section) THEN devs
    ELSE {Str(name) : name \in DOMAIN get_devices(section)}

\* The handler has answered: frame holds the option it worked on and its
\* answer.
ApiAnswered(op, name, success) ==
    /\ frame' = [NoFrame EXCEPT !.op = op, !.dev = Str(optionxform(name)),
                                !.result = IF success THEN "ok" ELSE "fail"]
    /\ obs' = NoObs
    /\ pc' = "done"
    /\ UNCHANGED <<owner, reg>>

\* `if name in device_manager.connections: device_manager.disconnect(name)`
\* (app.py lines 177-178 and 215-216), when `reached`: the lines are run.
ApiDisconnect(name, reached) ==
    IF reached /\ Str(name) \in Names /\ connections[Str(name)] # NoConn
    THEN /\ status' = [status EXCEPT ![connections[Str(name)]] = "closed"]
         /\ dead' = dead \ {connections[Str(name)]}
         /\ connections' = DropEntry(connections, Str(name))
    ELSE UNCHANGED <<connections, status, dead>>

\* add_device() of app.py, lines 112-150: POST /api/devices.
ApiAddDevice(name, ip, username, password, device_type) ==
    /\ Idle
    /\ IF <<>> \in {name, ip, username, password, device_type}
       THEN /\ UNCHANGED <<config, devices>>
            /\ ApiAnswered("add_device", name, FALSE)
       ELSE /\ config' = add_device(config, name, ip, username, password, device_type).section
            /\ devices' = IF add_device(config, name, ip, username, password,
                                        device_type).success
                          THEN Reloaded(config', devices) ELSE devices
            /\ ApiAnswered("add_device", name,
                           add_device(config, name, ip, username, password,
                                      device_type).success)
    /\ UNCHANGED <<connections, status, dead>>

\* update_device() of app.py, lines 153-194: PUT /api/devices.
ApiUpdateDevice(name, ip, username, password, device_type) ==
    /\ Idle
    /\ IF <<>> \in {name, ip, username, device_type}
       THEN /\ UNCHANGED <<config, devices, connections, status, dead>>
            /\ ApiAnswered("update_device", name, FALSE)
       ELSE /\ config' = update_device(config, name, ip, username, password,
                                       device_type).section
            /\ devices' = IF update_device(config, name, ip, username, password,
                                           device_type).success
                          THEN Reloaded(config', devices) ELSE devices
            /\ ApiDisconnect(name, /\ update_device(config, name, ip, username, password,
                                                    device_type).success
                                   /\ ~get_devices_raises(config'))
            /\ ApiAnswered("update_device", name,
                           update_device(config, name, ip, username, password,
                                         device_type).success)

\* delete_device() of app.py, lines 197-232: DELETE /api/devices.
ApiDeleteDevice(name) ==
    /\ Idle
    /\ IF name = <<>>
       THEN /\ UNCHANGED <<config, devices, connections, status, dead>>
            /\ ApiAnswered("delete_device", name, FALSE)
       ELSE /\ config' = delete_device(config, name).section
            /\ devices' = IF delete_device(config, name).success
                          THEN Reloaded(config', devices) ELSE devices
            /\ ApiDisconnect(name, /\ delete_device(config, name).success
                                   /\ ~get_devices_raises(config'))
            /\ ApiAnswered("delete_device", name, delete_device(config, name).success)

\* The requests of the API name r1, in lower or in upper case; the calls of
\* the device manager between them go to r1.
ApiNames == {<<"r","1">>, <<"R","1">>}
ApiDevices == {"r1"}
ApiPasswords == {<<"p">>}
ApiSendOutcomes == {"text", "SocketClosed"}
ApiContents == {<<"Building configuration...", "hostname R1">>}

apiFrame == <<diffVars, orchVars, histVars, concVars>>

NextApi ==
    \/ (\E name \in ApiNames, ip \in Hosts, username \in Users,
           password \in ApiPasswords, device_type \in DeviceTypes :
           ApiAddDevice(name, ip, username, password, device_type)) /\ UNCHANGED apiFrame
    \/ (\E name \in ApiNames, ip \in Hosts, username \in Users,
           password \in ApiPasswords, device_type \in DeviceTypes :
           ApiUpdateDevice(name, ip, username, password, device_type)) /\ UNCHANGED apiFrame
    \/ (\E name \in ApiNames : ApiDeleteDevice(name)) /\ UNCHANGED apiFrame
    \/ (\E d \in ApiDevices : CallConnect(d)) /\ UNCHANGED <<apiFrame, devices, regVars>>
    \/ ConnectCheckCache /\ UNCHANGED <<apiFrame, devices, regVars>>
    \/ (\E o \in JobAttemptOutcomes : ConnectAttempt(o)) /\ UNCHANGED <<apiFrame, devices, regVars>>
    \/ ConnectDone /\ UNCHANGED <<apiFrame, devices, regVars>>
    \/ (\E d \in ApiDevices : CallExecute(d, TRUE)) /\ UNCHANGED <<apiFrame, devices, regVars>>
    \/ ExecStart /\ UNCHANGED <<apiFrame, devices, regVars>>
    \/ ExecAfterConnect /\ UNCHANGED <<apiFrame, devices, regVars>>
    \/ (\E o \in ApiSendOutcomes : ExecSend(o)) /\ UNCHANGED <<apiFrame, devices, regVars>>
    \/ ExecAfterReconnect /\ UNCHANGED <<apiFrame, devices, regVars>>
    \/ (\E d \in ApiDevices, c \in ApiContents : CallRestore(d, c))
          /\ UNCHANGED <<apiFrame, devices, regVars>>
    \/ RestoreStart /\ UNCHANGED <<apiFrame, devices, regVars>>
    \/ RestoreAfterConnect /\ UNCHANGED <<apiFrame, devices, regVars>>
    \/ (\E o \in {"ok", "config_raise"} : RestoreSend(o)) /\ UNCHANGED <<apiFrame, devices, regVars>>
    \/ (\E d \in ApiDevices : Disconnect(d, "ok")) /\ UNCHANGED <<apiFrame, devices, regVars>>
    \/ (\E s \in Sids : SessionDies(s)) /\ UNCHANGED <<apiFrame, devices, regVars>>

SpecApi == Init /\ [][NextApi]_vars

\* ================================================================ claims
\* Vocabulary of the claims.
OpenSessions(d) == {s \in Sids : status[s] = "open" /\ owner[s] = d}

ExecDone == pc = "done" /\ frame.op = "exec"

\* The control has just come back from connect().
ConnectReturned ==
    pc \in {"connect_done", "exec_connected", "exec_reconnected", "restore_connected"}

\* Positions of the failed commands of the running execute_command.
FailedSends == {i \in 1..Len(obs.outs) : obs.outs[i] \in Exceptions}

\* C1: every device name has at most one session that was opened and is not
\* yet closed, whatever calls were made.
C1_OneOpenSessionPerDevice ==
    \A d \in Names : Cardinality(OpenSessions(d)) <= 1

\* C2: a command (of execute_command or of restore_config) only goes to a
\* session that passed the liveness probe earlier in the same call.
C2_SendOnlyAfterProbe == ~obs.sentUnprobed

\* C3: after an authentication rejection connect() makes no further attempt
\* and returns None; a connect or execute call whose first attempt is the
\* rejection makes one attempt in total and leaves no cache entry.
C3_AuthNotRetried ==
    /\ obs.last = "auth" => pc # "attempt"
    /\ (ConnectReturned /\ obs.last = "auth") => frame.conn = NoConn
    /\ (pc = "done" /\ frame.op \in {"connect", "exec"} /\ obs.first = "auth") =>
          /\ obs.total = 1
          /\ frame.result = "none"
          /\ connections[frame.dev] = NoConn

C3_Witness ==
    /\ ExecDone
    /\ obs.first = "auth"
    /\ Len(obs.sends) = 1

\* C4: connect() makes at most connection_retries attempts; when every
\* attempt ends in a timeout, a transport error or a failed probe it makes
\* exactly connection_retries of them, returns None and the device has no
\* cache entry.
C4_BoundedConnectAttempts ==
    /\ obs.attempts <= connection_retries
    /\ (ConnectReturned /\ obs.attempts > 0 /\ obs.fails = obs.attempts) =>
          /\ obs.attempts = connection_retries
          /\ frame.conn = NoConn
          /\ connections[frame.dev] = NoConn

C4_Witness ==
    /\ pc = "connect_done"
    /\ obs.fails = connection_retries
    /\ obs.probed # {}

\* C5: attempt 1 is not preceded by a sleep, attempt k > 1 is preceded by a
\* sleep of retry_delay * (k - 1); the delays of one connect() grow strictly.
C5_LinearBackoff ==
    /\ Len(obs.sleeps) = (IF obs.attempts = 0 THEN 0 ELSE obs.attempts - 1)
    /\ \A i \in 1..Len(obs.sleeps) : obs.sleeps[i] = retry_delay * i
    /\ \A i \in 1..(Len(obs.sleeps) - 1) : obs.sleeps[i] < obs.sleeps[i + 1]

C5_Witness ==
    /\ ConnectReturned
    /\ obs.attempts = connection_retries
    /\ Len(obs.sleeps) = 2

\* C6: one execute_command sends the command at most twice, and at most once
\* when retry_on_failure is false.
C6_AtMostTwoSends ==
    frame.op = "exec" =>
        /\ Len(obs.sends) <= 2
        /\ ~frame.retry => Len(obs.sends) <= 1

C6_Witness ==
    /\ ExecDone
    /\ Len(obs.sends) = 2
    /\ FailedSends = {1, 2}

\* C7: when the first command of an execute_command with retry_on_failure
\* fails with a transient (timeout, closed, reset) error, the cached session
\* is closed and removed and connect() is called; if that gives a session the
\* command is sent once more, on the new session; if not, there is no second
\* send and the call returns None.
C7_TransientRetriedOnce ==
    (ExecDone /\ frame.retry /\ 1 \in FailedSends /\ Transient(obs.outs[1])) =>
        /\ status[obs.sends[1]] = "closed"
        /\ obs.reconnect \in {"ok", "failed"}
        /\ obs.reconnect = "ok" =>
              (Len(obs.sends) = 2 /\ obs.sends[2] # obs.sends[1])
        /\ obs.reconnect = "failed" =>
              (Len(obs.sends) = 1 /\ frame.result = "none")

\* C8: when both commands of an execute_command fail, the device has no
\* cache entry when the call returns.
C8_BothFailClearsCache ==
    (ExecDone /\ FailedSends = {1, 2}) =>
        /\ frame.result = "none"
        /\ connections[frame.dev] = NoConn
        /\ status[obs.sends[2]] = "closed"

C8_Witness ==
    /\ ExecDone
    /\ FailedSends = {1, 2}
    /\ obs.reconnect = "ok"
    /\ Transient(obs.outs[1])

\* C9: a command that fails with a non-transient error ends the
\* execute_command: no retry, None is returned and the device has no cache
\* entry, for both values of retry_on_failure.
C9_NonTransientDiscards ==
    \A i \in FailedSends :
        (ExecDone /\ ~Transient(obs.outs[i])) =>
            /\ i = Len(obs.sends)
            /\ frame.result = "none"
            /\ connections[frame.dev] = NoConn

\* C10: a command that completes with empty output ends the execute_command
\* with the empty text as its result, no further send, and the session it
\* ran on still cached.
C10_EmptyOutputIsResult ==
    \A i \in 1..Len(obs.outs) :
        obs.outs[i] = "empty" =>
            /\ pc = "done"
            /\ i = Len(obs.outs)
            /\ frame.result = "empty"
            /\ connections[frame.dev] = obs.sends[i]
            /\ status[obs.sends[i]] = "open"

C10_Witness ==
    /\ ExecDone
    /\ Len(obs.outs) = 2
    /\ obs.outs[2] = "empty"


\* --------------------------------------------------- claims, diff engine
\* The call of compare_configs has returned.
Compared == diff_pc = "returned"

\* The line carries one of the markers the volatility filter is specified
\* to drop: clock state, NTP clock-period, time stamp, last configuration
\* change, NVRAM last updated (case-insensitive; comment forms included).
CarriesVolatileMarker(line) ==
    \E marker \in {<<"c","l","o","c","k">>,
                   <<"!","t","i","m","e",":">>,
                   <<"l","a","s","t"," ","c","o","n","f","i","g","u","r","a","t","i","o","n"," ","c","h","a","n","g","e">>,
                   <<"n","v","r","a","m"," ","c","o","n","f","i","g"," ","l","a","s","t"," ","u","p","d","a","t","e","d">>} :
        Contains(marker, lower(line))

\* The positions at which two texts of equally many lines differ.
DifferingLines(old, new) ==
    {k \in 1..Len(splitlines(old, FALSE)) :
        splitlines(old, FALSE)[k] # splitlines(new, FALSE)[k]}

SameLineCount(old, new) == Len(splitlines(old, FALSE)) = Len(splitlines(new, FALSE))

\* C15: comparing a text with itself reports no change, no added line and
\* no removed line.
C15_CompareSelfNoChange ==
    (Compared /\ diff_old = diff_new) =>
        /\ ~diff_result.has_changes
        /\ diff_result.added_lines = 0
        /\ diff_result.removed_lines = 0

\* A text of three lines, one of them a setting, was compared with itself.
C15_Witness ==
    /\ Compared
    /\ diff_old = diff_new
    /\ Len(splitlines(diff_old, FALSE)) = 3
    /\ \E k \in 1..3 : ~CarriesVolatileMarker(splitlines(diff_old, FALSE)[k])
    /\ ~diff_result.has_changes

\* C16: two texts that differ only in lines carrying a volatile marker
\* (clock, time stamp, ...) compare as unchanged.
C16_VolatileDifferenceIgnored ==
    (/\ Compared
     /\ SameLineCount(diff_old, diff_new)
     /\ \A k \in DifferingLines(diff_old, diff_new) :
            /\ CarriesVolatileMarker(splitlines(diff_old, FALSE)[k])
            /\ CarriesVolatileMarker(splitlines(diff_new, FALSE)[k]))
        => ~diff_result.has_changes

\* C17: two texts that are the same except for one line, a non-volatile
\* line replaced by another non-volatile line, compare as changed with one
\* added and one removed line, wherever the line stands.
C17_OneLineReplacedCounts ==
    (/\ Compared
     /\ SameLineCount(diff_old, diff_new)
     /\ Cardinality(DifferingLines(diff_old, diff_new)) = 1
     /\ \A k \in DifferingLines(diff_old, diff_new) :
            /\ ~CarriesVolatileMarker(splitlines(diff_old, FALSE)[k])
            /\ ~CarriesVolatileMarker(splitlines(diff_new, FALSE)[k]))
        => /\ diff_result.has_changes
           /\ diff_result.added_lines = 1
           /\ diff_result.removed_lines = 1

\* ---------------------------------------------------- claims, orchestrator
\* A _backup_device call of backup_all_devices has just ended.
RunOneEnded ==
    /\ job.op = "backup_all_devices"
    /\ job.pc = "loop"
    /\ olog.outcome \notin {"none", "running"}

\* A backup request has been answered.
RequestEnded == job.op = "backup_device" /\ job.pc = "done"

\* The loop of backup_all_devices is through.
LoopEnded == job.op = "backup_all_devices" /\ job.pc = "loop" /\ job.todo = {}

\* The latest of the backup files.
LatestOf(files) == files[CHOOSE k \in DOMAIN files : \A j \in DOMAIN files : j <= k]

\* The lines of a text that carry no volatile marker.
RECURSIVE SteadyLines(_)
SteadyLines(lines) ==
    IF lines = <<>> THEN <<>>
    ELSE (IF CarriesVolatileMarker(Head(lines)) THEN <<>> ELSE <<Head(lines)>>)
         \o SteadyLines(Tail(lines))

\* Two texts differ in a line that carries no volatile marker.
DriftBetween(old, new) ==
    SteadyLines(splitlines(old, FALSE)) # SteadyLines(splitlines(new, FALSE))

\* C11: a _backup_device call for a device without backup, whose command
\* came back without error and whose file operations all worked, leaves
\* exactly one backup of the device and sends no alert.
C11_FirstRunOneRecordNoAlert ==
    (/\ RunOneEnded
     /\ olog.before = <<>>
     /\ olog.captured \in {"text", "empty"}
     /\ olog.outcome \notin {"store_failed", "raised"})
        => /\ Cardinality(DOMAIN store[olog.dev]) = 1
           /\ olog.alerts = 0

\* C12: a successful _backup_device call that captures the text the
\* device's latest backup already holds sends no alert and leaves one
\* backup more than there was, whenever it runs.
C12_SameContentStoredAgain ==
    (/\ RunOneEnded
     /\ olog.outcome = "success"
     /\ olog.before # <<>>
     /\ LatestOf(olog.before) = job.config_content)
        => /\ olog.alerts = 0
           /\ Cardinality(DOMAIN store[olog.dev]) = Cardinality(DOMAIN olog.before) + 1

\* C13: when the loop of backup_all_devices is through, _backup_device was
\* called for every device, and every device whose capture, store and
\* pipeline had no fault has a backup written in this run.
C13_ContinueOnError ==
    LoopEnded =>
        /\ olog.ran = devices
        /\ \A d \in devices :
              olog.outcomes[d] \notin {"capture_failed", "store_failed", "raised"}
                  => d \in olog.recorded

C18_DriftAlwaysNotified ==
    (/\ RunOneEnded \/ RequestEnded
     /\ olog.stored # NoKey
     /\ olog.before # <<>>
     /\ DriftBetween(LatestOf(olog.before), job.config_content))
        => olog.alerts >= 1

\* C19: when send_alert returned False in a _backup_device call, the
\* backup the call wrote is still there with the captured text, the call
\* returned, and backup_all_devices counted it as a success.
C19_AlertFailureNotFatal ==
    (RunOneEnded /\ olog.alerts >= 1 /\ ~olog.email_result) =>
        /\ olog.stored \in DOMAIN store[olog.dev]
        /\ store[olog.dev][olog.stored] = job.config_content
        /\ olog.outcome = "success"
        /\ olog.counted = "success"

\* A _backup_device call found a change and send_alert returned False.
C19_Witness ==
    /\ RunOneEnded
    /\ olog.alerts = 1
    /\ ~olog.email_result
    /\ olog.outcome = "success"

\* C20: when execute_command returned an error to get_config, the
\* _backup_device call writes no backup, compares nothing, sends no alert
\* and returns without an exception.
C20_CaptureFailureStops ==
    (RunOneEnded /\ olog.captured = "none") =>
        /\ store[olog.dev] = olog.before
        /\ olog.stored = NoKey
        /\ ~olog.compared
        /\ olog.alerts = 0
        /\ olog.outcome = "capture_failed"
        /\ olog.counted = "success"

\* The capture failed for a device that has a backup to compare with.
C20_Witness ==
    /\ RunOneEnded
    /\ olog.captured = "none"
    /\ olog.before # <<>>
    /\ olog.outcome = "capture_failed"

\* C21: when backup_config returned None in a _backup_device call, the
\* call ends as store-failed with nothing compared and no alert sent, and
\* the device holds the same backups, with the same texts, as before the
\* call.
C21_StoreFailureLeavesRecords ==
    (RunOneEnded /\ olog.outcome = "store_failed") =>
        /\ ~olog.compared
        /\ olog.alerts = 0
        /\ store[olog.dev] = olog.before

\* C22: the text a _backup_device call compares the capture with is the
\* text the device's latest backup held before the call wrote its own.
C22_BaselineIsPriorRecord ==
    (RunOneEnded /\ olog.compared) =>
        /\ olog.before # <<>>
        /\ olog.prior = LatestOf(olog.before)

\* The steps of _backup_device, in the order of the claim.
Pipeline == <<"capture", "lookup", "store", "diff", "alert">>

IsPrefix(s, t) == Len(s) <= Len(t) /\ s = SubSeq(t, 1, Len(s))

\* C23: in a backup_all_devices run the steps a _backup_device call has
\* taken are the first steps of capture, lookup, store, diff, alert, in that
\* order; and once cleanup_old_backups has begun, _backup_device was called
\* for every device of the run and each of these calls has ended.
C23_PruneAfterEveryPipeline ==
    job.op = "backup_all_devices" =>
        /\ IsPrefix(olog.steps, Pipeline)
        /\ olog.prune # "none" =>
              /\ olog.ran = job.devices
              /\ \A d \in job.devices : olog.outcomes[d] # "none"
              /\ olog.outcome # "running"

\* cleanup_old_backups has begun after a run over two devices, one whose
\* _backup_device call wrote a backup and one whose call failed.
C23_Witness ==
    /\ job.op = "backup_all_devices"
    /\ job.pc = "cleanup"
    /\ olog.prune = "running"
    /\ Cardinality(job.devices) = 2
    /\ \E d \in job.devices : olog.outcomes[d] = "success"
    /\ \E d \in job.devices : olog.outcomes[d] \in {"capture_failed", "store_failed", "raised"}

\* C24: a backup_all_devices run that has ended has called
\* cleanup_old_backups, whatever the registry holds, and the call has
\* returned or its exception was caught.
C24_RunAllEndsWithPrune ==
    (job.op = "backup_all_devices" /\ job.pc = "done")
        => olog.prune \in {"returned", "raised"}

\* C25: backup_all_devices counts a _backup_device call as a success
\* exactly if the call wrote a backup and ended without an exception, and
\* when the loop is through the two counters add up to the number of
\* devices.
C25_CountsReflectOutcomes ==
    /\ RunOneEnded => (olog.counted = "success" <=> olog.outcome = "success")
    /\ RunOneEnded => olog.counted \in {"success", "fail"}
    /\ LoopEnded => job.success_count + job.fail_count = Cardinality(job.devices)

\* C28: when cleanup_old_backups failed on the directory or on a file of
\* one device, no other device is left with a backup older than the cutoff.
C28_PruneDevicesIndependent ==
    (job.pc = "done" /\ olog.prune = "raised" /\ olog.pruneFailed \in Names) =>
        \A d \in Names \ {olog.pruneFailed} :
            \A k \in DOMAIN store[d] : ~(k < job.cutoff_date)

\* C29: no step changes the text of a backup that is there before and
\* after it, and a backup is gone after a step only if the step belongs to
\* cleanup_old_backups or to a delete request.
C29_RecordsImmutable ==
    [][\A d \in Names :
          /\ \A k \in DOMAIN store[d] \cap DOMAIN store'[d] : store'[d][k] = store[d][k]
          /\ ~(DOMAIN store[d] \subseteq DOMAIN store'[d])
                => (job.pc = "cleanup" \/ job'.op = "delete_backup")]_vars

\* ------------------------------------------------ claims, backup history
\* The files of the listed directory get_backup_history can read.
ReadableFiles ==
    IF hist_listdir = "ok"
    THEN {hist_listing[i] : i \in 1..Len(hist_listing)} \ hist_unreadable
    ELSE {}

\* C30: get_backup_history returns each readable file of the directory
\* once, later time stamps first, whatever file is unreadable; and
\* get_latest_backup returns the first of them, the one with the greatest
\* time stamp, and None exactly if no file is readable.
C30_HistoryNewestFirst ==
    hist_pc = "returned" =>
        /\ {hist_history[i] : i \in 1..Len(hist_history)} = ReadableFiles
        /\ Len(hist_history) = Cardinality(ReadableFiles)
        /\ \A i, j \in 1..Len(hist_history) : i < j => hist_history[i] > hist_history[j]
        /\ hist_latest = NoKey <=> ReadableFiles = {}
        /\ hist_latest # NoKey =>
              /\ hist_latest = hist_history[1]
              /\ \A file \in ReadableFiles : file <= hist_latest

\* The history of a directory listed oldest first, with an unreadable file
\* that is later than two readable ones.
C30_Witness ==
    /\ hist_pc = "returned"
    /\ Len(hist_history) >= 2
    /\ hist_listing[1] < hist_listing[2]
    /\ \E file \in hist_unreadable : file > hist_latest

\* ---------------------------------------------- claims, concurrent callers
\* Thread t has read the cache entry of its device and has not yet done
\* the write or delete that depends on what it read.
InCacheSection(t) == threads[t].pc \in {"probe", "connect", "dialing"}

\* C26: no two threads have a command in flight on the same session at
\* the same time.
C26_OneCommandPerSession ==
    \A t1, t2 \in Threads :
        (t1 # t2 /\ InFlight(t1) /\ InFlight(t2))
            => threads[t1].connection # threads[t2].connection

\* C27: no two threads are between their read and their write of the
\* cache entry of the same device at the same time, and no thread is
\* between opening and closing a backup file of a device while another
\* is pruning or deleting backups of that device.
C27_CacheAndStoreExclusive ==
    \A t1, t2 \in Threads :
        (t1 # t2 /\ threads[t1].dev = threads[t2].dev) =>
            /\ ~(InCacheSection(t1) /\ InCacheSection(t2))
            /\ ~(threads[t1].pc = "writing" /\ threads[t2].pc \in {"pruning", "removing"})

\* C31: a disconnect(device_name) call leaves the cache without an entry for
\* the device, also when the close of the session raised; it leaves the
\* entries of all other devices as they were, and changes nothing in the cache
\* when the device had no entry.  A disconnect_all() call leaves the cache
\* empty.
C31_DisconnectRemovesOnlyItsEntry ==
    [][/\ \A d \in Names, c \in CloseOutcomes :
            Disconnect(d, c) =>
                /\ connections'[d] = NoConn
                /\ \A e \in Names \ {d} : connections'[e] = connections[e]
                /\ connections[d] = NoConn => connections' = connections
       /\ DisconnectAll => \A d \in Names : connections'[d] = NoConn]_vars

\* A disconnect whose close raised has ended, and another device is cached.
C31_Witness ==
    /\ pc = "done"
    /\ frame.op = "disconnect"
    /\ frame.result = "close_raised"
    /\ connections[frame.dev] = NoConn
    /\ \E e \in Names \ {frame.dev} : connections[e] # NoConn

\* C32: once connect() or execute_command() has found that the cached session
\* fails the probe, that session is closed and out of the cache before the
\* first ConnectHandler call and from then on: connect() never returns it and
\* it is not in the cache when connect() returns, with a new session or with
\* None.
C32_StaleHandleDiscarded ==
    obs.stale # NoConn =>
        /\ status[obs.stale] = "closed"
        /\ \A d \in Names : connections[d] # obs.stale
        /\ frame.conn # obs.stale

\* connect() found a stale session and returned a new one.
C32_Witness ==
    /\ ConnectReturned
    /\ obs.stale # NoConn
    /\ frame.conn # NoConn
    /\ connections[frame.dev] = frame.conn

\* connect() found a stale session and returned None after failed attempts.
C32_WitnessFailed ==
    /\ ConnectReturned
    /\ obs.stale # NoConn
    /\ obs.attempts = connection_retries
    /\ frame.conn = NoConn

\* C33: a step puts a session into the cache only in a pass of the loop of
\* connect() that opened the session and saw it pass the probe.  A pass whose
\* new session fails the probe closes the session, leaves the cache as it is,
\* does not return the session and is one failed pass of the
\* connection_retries passes: the loop goes on with the next pass, or
\* connect() returns None after the last one.
C33_CachedOnlyAfterProbe ==
    [][/\ \A d \in Names :
            (connections'[d] # NoConn /\ connections'[d] # connections[d]) =>
                /\ pc = "attempt"
                /\ d = frame.dev
                /\ status[connections'[d]] = "unopened"
                /\ status'[connections'[d]] = "open"
                /\ connections'[d] \in obs'.probed
                /\ obs'.last = "ok"
       /\ ConnectAttempt("probe_fail") =>
            /\ status'[NextSid] = "closed"
            /\ connections' = connections
            /\ frame'.conn # NextSid
            /\ obs'.fails = obs.fails + 1
            /\ obs'.attempts = obs.attempts + 1
            /\ IF frame.attempt < connection_retries
               THEN pc' = "attempt" /\ frame'.attempt = frame.attempt + 1
               ELSE pc' = frame.ret /\ frame'.conn = NoConn]_vars

\* connect() has cached the session of its second pass; the session of the
\* first pass failed the probe and is closed.
C33_Witness ==
    /\ ConnectReturned
    /\ obs.first = "probe_fail"
    /\ obs.last = "ok"
    /\ obs.attempts = 2
    /\ obs.fails = 1
    /\ connections[frame.dev] = frame.conn
    /\ \E s \in obs.probed : status[s] = "closed" /\ owner[s] = frame.dev

\* C34: _filter_dynamic_lines drops the lines that carry a volatile marker
\* and keeps all other lines in their order, blank lines and other comments
\* among them; so two texts that differ in a line without such a marker, as
\* a line with 'version ' is, compare as changed.
C34_FilterKeepsUnmarkedLines ==
    Compared =>
        /\ \A text \in {diff_old, diff_new} :
              filter_dynamic_lines(splitlines(strip(text), TRUE))
                  = SteadyLines(splitlines(strip(text), TRUE))
        /\ (/\ SameLineCount(diff_old, diff_new)
            /\ \E k \in DifferingLines(diff_old, diff_new) :
                  /\ ~CarriesVolatileMarker(splitlines(diff_old, FALSE)[k])
                  /\ ~CarriesVolatileMarker(splitlines(diff_new, FALSE)[k]))
              => diff_result.has_changes

\* ---------------------------------------------------- claims, registry
\* The names get_devices returns for the section.
Listed(section) == DOMAIN get_devices(section)

Given == [ip |-> reg.ip, username |-> reg.username, password |-> reg.password,
          device_type |-> reg.device_type]

\* C35: add_device with a name that is not listed succeeds, and get_devices
\* then lists the name with the fields given; add_device with a listed name
\* fails and leaves the section as it was; delete_device of a listed name
\* succeeds and the name is no longer listed; update_device and
\* delete_device of a name that is not listed fail and leave the section as
\* it was.
C35_RegistryReflectsEdits ==
    /\ (reg.op = "add_device" /\ reg.name \notin Listed(reg.before)) =>
          /\ reg.success
          /\ ~get_devices_raises(config)
          /\ reg.name \in Listed(config)
          /\ get_devices(config)[reg.name] = Given
    /\ (reg.op = "add_device" /\ reg.name \in Listed(reg.before)) =>
          /\ ~reg.success
          /\ config = reg.before
    /\ (reg.op = "delete_device" /\ reg.name \in Listed(reg.before)) =>
          /\ reg.success
          /\ reg.name \notin Listed(config)
    /\ (reg.op \in {"update_device", "delete_device"}
        /\ reg.name \notin Listed(reg.before)) =>
          /\ ~reg.success
          /\ config = reg.before

\* C36: a _backup_device call ends at the capture only when execute_command
\* returned an error; when the command came back with the empty text the
\* call goes on to the store step and, unless the store fails, has written
\* a backup when it ends.
C36_EmptyCaptureIsStored ==
    RunOneEnded =>
        /\ olog.outcome \in {"capture_failed", "capture_empty"} => olog.captured = "none"
        /\ olog.captured = "empty" =>
              /\ \E i \in DOMAIN olog.steps : olog.steps[i] = "store"
              /\ olog.outcome \notin {"store_failed", "raised"} =>
                    /\ olog.stored # NoKey
                    /\ olog.stored \in DOMAIN store[olog.dev]

\* The filtered lines compare_configs takes the diff of.
FilteredLines(text) == filter_dynamic_lines(splitlines(strip(text), TRUE))

\* The number of lines the edit script from a to b inserts (side = 4) or
\* deletes (side = 2): the lengths of its insert or delete, and replace,
\* ranges.
RECURSIVE EditLines(_, _, _)
EditLines(codes, tag, side) ==
    IF codes = <<>> THEN 0
    ELSE (IF Head(codes)[1] \in {tag, "replace"}
          THEN Head(codes)[side + 1] - Head(codes)[side] ELSE 0)
         + EditLines(Tail(codes), tag, side)

\* C37: when compare_configs reports a change, it reports at least one added
\* or removed line, and added_lines and removed_lines are the numbers of
\* lines inserted into and deleted from the filtered old text to get the
\* filtered new text, wherever the changed lines stand.
C37_CountsMatchEditScript ==
    (Compared /\ diff_result.has_changes) =>
        /\ diff_result.added_lines + diff_result.removed_lines >= 1
        /\ diff_result.added_lines =
              EditLines(get_opcodes(FilteredLines(diff_old), FilteredLines(diff_new)),
                        "insert", 4)
        /\ diff_result.removed_lines =
              EditLines(get_opcodes(FilteredLines(diff_old), FilteredLines(diff_new)),
                        "delete", 2)

\* C38: every device name with a cached session is a name of
\* device_manager.devices, and when the update or the delete handler of the
\* device API has answered with success, the device it changed has no
\* cached session.
C38_CacheFollowsRegistry ==
    /\ \A d \in Names : connections[d] # NoConn => d \in devices
    /\ (/\ pc = "done"
        /\ frame.op \in {"update_device", "delete_device"}
        /\ frame.result = "ok")
          => connections[frame.dev] = NoConn

\* ------------------------------------------- claims, device manager again
\* A call of connect, execute_command or restore_config is running for a
\* name that is not in the registry and has no cached session.
UnregisteredCall ==
    /\ pc \notin {"idle", "done"}
    /\ frame.op \in {"connect", "exec", "restore"}
    /\ frame.dev \notin devices
    /\ connections[frame.dev] = NoConn

\* C39: a connect, execute_command or restore_config call for a name that is
\* not in the registry and has no cached session opens and closes no
\* session, leaves the cache as it is, and ends with None or a failure.
C39_UnregisteredNameFails ==
    [][UnregisteredCall =>
          /\ connections' = connections
          /\ status' = status
          /\ obs'.total = 0
          /\ obs'.sends = <<>>
          /\ pc' = "done" => frame'.result \in {"none", "fail"}]_vars

\* Such a call of execute_command has ended.
C39_Witness ==
    /\ ExecDone
    /\ frame.dev \notin devices
    /\ frame.result = "none"
    /\ obs.total = 0


\* ======================================================= a run to its end
\* The thread that runs backup_all_devices (the BackgroundScheduler of
\* scheduler.py line 33, or the thread trigger_backup starts) goes on to its
\* next statement whenever the call it waits for has returned or raised.
\* Every transport exchange returns or raises, so no step waits for ever:
\* the steps of the thread are weakly fair.  Requests to the device API are
\* handled in other threads and need not come; here a handler runs as a
\* whole while the job thread is not inside execute_command.

\* The job thread is not inside a call of the device manager.
BetweenCalls == job.pc # "get_config"

\* What the run meets: a session, a timeout or a refused login for
\* ConnectHandler; an output, the empty output or a closed socket for
\* send_command; one device text; a request that deletes r1.
LiveAttemptOutcomes == {"ok", "timeout", "auth"}
LiveSendOutcomes == {"text", "empty", "SocketClosed"}
LiveDeleteNames == {<<"r","1">>}
LiveConfigs == {<<"i","p"," ","1">>}

liveFrame == <<diffVars, histVars, concVars>>

\* The steps of the job thread.
RunStep ==
    \/ (\E d \in Names : BackupDeviceStart(d)) /\ UNCHANGED <<liveFrame, devices, regVars>>
    \/ ConnectCheckCache /\ UNCHANGED <<liveFrame, orchVars, devices, regVars>>
    \/ (\E o \in LiveAttemptOutcomes : ConnectAttempt(o)) /\ UNCHANGED <<liveFrame, orchVars, devices, regVars>>
    \/ ExecStart /\ UNCHANGED <<liveFrame, orchVars, devices, regVars>>
    \/ ExecAfterConnect /\ UNCHANGED <<liveFrame, orchVars, devices, regVars>>
    \/ (\E o \in LiveSendOutcomes : ExecSend(o)) /\ UNCHANGED <<liveFrame, orchVars, devices, regVars>>
    \/ ExecAfterReconnect /\ UNCHANGED <<liveFrame, orchVars, devices, regVars>>
    \/ (\E text \in LiveConfigs : GetConfigReturns(text)) /\ UNCHANGED <<liveFrame, devices, regVars>>
    \/ BackupStore("ok", "ok") /\ UNCHANGED <<liveFrame, devices, regVars>>
    \/ (\E r \in {"ok", "raise"} : BackupDiff(r, TRUE)) /\ UNCHANGED <<liveFrame, devices, regVars>>
    \/ CleanupStart("ok") /\ UNCHANGED <<liveFrame, devices, regVars>>
    \/ (\E d \in Names : CleanupDevice(d, "ok")) /\ UNCHANGED <<liveFrame, devices, regVars>>
    \/ CleanupReturns /\ UNCHANGED <<liveFrame, devices, regVars>>

NextLive ==
    \/ CallBackupAll /\ UNCHANGED <<dmVars, liveFrame, devices, regVars>>
    \/ RunStep
    \/ (\E name \in LiveDeleteNames : BetweenCalls /\ ApiDeleteDevice(name))
          /\ UNCHANGED <<liveFrame, orchVars>>

SpecLive == InitOrch /\ [][NextLive]_vars /\ WF_vars(RunStep)

\* ------------------------------------------------- claims, a run to its end
\* A _backup_device call begins.
RunOneBegins == job.pc = "loop" /\ job'.pc = "get_config"

\* The backup_all_devices run over the registry D has begun, has ended.
RunAllBegun(D) ==
    job.op = "backup_all_devices" /\ job.devices = D /\ job.pc \notin {"idle", "done"}
RunAllEnded(D) ==
    job.op = "backup_all_devices" /\ job.devices = D /\ job.pc = "done"

\* C40: every execute_command call ends with an output or with None and
\* has made at most 2 * connection_retries ConnectHandler calls, and every
\* backup_all_devices run ends and has by then run _backup_device once for
\* each device of the registry it began with and for no other, whatever the
\* registry has become since.
C40_CallsEnd ==
    /\ [](frame.op = "exec" => obs.total <= 2 * connection_retries)
    /\ (frame.op = "exec" /\ pc # "done")
          ~> (frame.op = "exec" /\ pc = "done"
              /\ frame.result \in {"text", "empty", "none"})
    /\ [][RunOneBegins => job'.dev \in job.devices \ olog.ran]_vars
    /\ \A D \in SUBSET Names :
          RunAllBegun(D)
              ~> (/\ RunAllEnded(D)
                  /\ olog.ran = D
                  /\ job.success_count + job.fail_count = Cardinality(D))

\* C40 witness: a run that began with r1 and r2 has ended after r1 was
\* deleted from the registry, and has run _backup_device for both.
C40_Witness ==
    /\ RunAllEnded({"r1", "r2"})
    /\ olog.ran = {"r1", "r2"}
    /\ devices = {"r2"}

\* An execute_command call of a run has ended after 2 * connection_retries
\* ConnectHandler calls.
C40_WitnessBound ==
    /\ frame.op = "exec"
    /\ pc = "done"
    /\ job.op = "backup_all_devices"
    /\ obs.total = 2 * connection_retries

====
